---- MODULE Spec2Model ----
(***************************************************************************)
(* The chronological as-of feature accumulation of the ATP match pipeline: *)
(* pull-data/src/04_win_computer.py,                                       *)
(* pull-data/src/05_breakpoints_and_tiebreak_computer.py and               *)
(* pull-data/src/06_features_adder.py.                                     *)
(*                                                                         *)
(* A dataframe is a sequence of rows; a row is a record of its columns.    *)
(* The columns a pass adds are kept as one field of the row, named after   *)
(* the pass, holding [winner |-> ..., loser |-> ...]: the column           *)
(* winner_wins_ytd is row.yearly.winner.wins_ytd, and so on.  A nullable   *)
(* cell is a sequence of length 0 (NaN) or 1.  A percentage is kept in     *)
(* hundredths (round(x, 2) * 100), a string as a sequence of characters.   *)
(***************************************************************************)
EXTENDS Integers, Sequences, FiniteSets, TLC

VARIABLES
    pc,         \* [script, fn, at]: the script running, the function, the place in it
    files,      \* parsed_data/: file name -> rows of the CSV (no index column)
    df,         \* the dataframe the running script holds
    df_sorted,  \* the running pass's sorted copy (and, at "done", its return value)
    i,          \* rows of df_sorted the running loop has finished
    acc,        \* the running pass's tracking dictionaries
    loc,        \* the loop body's locals between the snapshot read and the update
    lists       \* the running pass's output lists, one entry per row appended

vars == <<pc, files, df, df_sorted, i, acc, loc, lists>>

----------------------------------------------------------------------------
(* Bounds of the model. *)

MaxRecs == 3
MaxRecsTb == 2
MaxRecsAll == 3
MaxForm == 12
MaxRecsFatigue == 3
MaxRecsFail == 2
MaxRecsSurface == 3
MaxRecsDerived == 2
MaxRecsFrame == 3

----------------------------------------------------------------------------
(* Values. *)

NaN == <<>>
Some(x) == <<x>>
notna(v) == v # NaN
\* A null counter read as 1.
OrOne(v) == IF notna(v) THEN v[1] ELSE 1

OrZero(v) == IF notna(v) THEN v[1] ELSE 0

PlayerNames == <<"A", "B", "C">>

NameIndex(n) == CHOOSE k \in 1..Len(PlayerNames) : PlayerNames[k] = n

\* Python's < on the two display names.
StrLess(a, b) == NameIndex(a) < NameIndex(b)

\* round(num / den, 0) for num >= 0, den > 0, ties to even as Python rounds.
RoundHalfEven(num, den) ==
    LET q == num \div den
        r == num % den
    IN  IF 2 * r < den THEN q
        ELSE IF 2 * r > den THEN q + 1
        ELSE IF q % 2 = 0 THEN q ELSE q + 1

\* A percentage that is 100 on an empty record.
PctFullOnNothing(won, total) ==
    IF total > 0 THEN RoundHalfEven(won * 10000, total) ELSE 10000

\* round((won / total * 100) if total > 0 else 0.0, 2), in hundredths.
Pct(won, total) == IF total > 0 THEN RoundHalfEven(won * 10000, total) ELSE 0

\* round((n / games) if games > 0 else 0.0, 2), in hundredths.
Rate(n, games) == IF games > 0 THEN RoundHalfEven(n * 100, games) ELSE 0

----------------------------------------------------------------------------
(* Dictionaries: a dict is a function on the keys it holds. *)

EmptyDict == <<>>

\* defaultdict.__getitem__: a missing key is created with the default.
Touch(d, k, zero) == IF k \in DOMAIN d THEN d ELSE d @@ (k :> zero)

Get(d, k, zero) == IF k \in DOMAIN d THEN d[k] ELSE zero

\* d[k] += n on a defaultdict(int).
Inc(d, k, n) == [Touch(d, k, 0) EXCEPT ![k] = @ + n]

\* d[k][j] += 1 on a defaultdict(lambda: [0, 0]).
IncAt(d, k, j) == [Touch(d, k, <<0, 0>>) EXCEPT ![k][j] = @ + 1]

----------------------------------------------------------------------------
(* The Sequencer: df.sort_values(['tournament_date', 'match_number']). *)

KeyLess(r, s) ==
    \/ r.tournament_date < s.tournament_date
    \/ /\ r.tournament_date = s.tournament_date
       /\ r.match_number < s.match_number

\* A sort that puts a row before the rows of equal key already placed.
InsertUnstable(sorted, r) ==
    LET n == Len(sorted)
        before == {k \in 1..n : KeyLess(sorted[k], r)}
        p == IF before = {} THEN 0 ELSE CHOOSE k \in before : \A j \in before : j <= k
    IN  SubSeq(sorted, 1, p) \o <<r>> \o SubSeq(sorted, p + 1, n)

\* A sort that leaves the rows in the order they came.
InsertAtEnd(sorted, r) == Append(sorted, r)

\* A sort that keeps one row of each (date, match number).
InsertUnique(sorted, r) ==
    IF \E k \in 1..Len(sorted) : ~KeyLess(sorted[k], r) /\ ~KeyLess(r, sorted[k])
    THEN sorted
    ELSE LET n == Len(sorted)
             before == {k \in 1..n : KeyLess(sorted[k], r)}
             p == IF before = {} THEN 0 ELSE CHOOSE k \in before : \A j \in before : j <= k
         IN  SubSeq(sorted, 1, p) \o <<r>> \o SubSeq(sorted, p + 1, n)

\* A sort on several columns is pandas' lexsort: stable, a row goes after the
\* rows already placed whose key is not greater.
Insert(sorted, r) ==
    LET n == Len(sorted)
        before == {k \in 1..n : ~KeyLess(r, sorted[k])}
        p == IF before = {} THEN 0 ELSE CHOOSE k \in before : \A j \in before : j <= k
    IN  SubSeq(sorted, 1, p) \o <<r>> \o SubSeq(sorted, p + 1, n)

\* A sort that takes the rows from the last to the first: rows of one key
\* come out in the reverse of the order they came in.
RECURSIVE SortFromBack(_, _, _)
SortFromBack(rows, k, sorted) ==
    IF k > Len(rows) THEN sorted
    ELSE SortFromBack(rows, k + 1, Insert(sorted, rows[Len(rows) + 1 - k]))

RECURSIVE SortFrom(_, _, _)
SortFrom(rows, k, sorted) ==
    IF k > Len(rows) THEN sorted
    ELSE SortFrom(rows, k + 1, Insert(sorted, rows[k]))

SortValues(rows) == SortFrom(rows, 1, <<>>)

----------------------------------------------------------------------------
(* CSV files. *)

\* pd.read_csv: the rows in file order under a fresh RangeIndex.
ReadCsv(rows) == [k \in 1..Len(rows) |-> rows[k] @@ ("idx" :> k - 1)]

\* to_csv(index=False): every column but the index.
ToCsv(rows) ==
    [k \in 1..Len(rows) |-> [f \in DOMAIN rows[k] \ {"idx"} |-> rows[k][f]]]

----------------------------------------------------------------------------
(* 04_win_computer.py: compute_yearly_stats. *)

InitYearly == [yearly_wins |-> EmptyDict, yearly_losses |-> EmptyDict]

\* Lines 37-61: the year-to-date stats before this match, and their append.
ReadYearly(a, row) ==
    LET year == row.tournament_year
        winner == row.winner_player_name
        loser == row.loser_player_name
        yw == Touch(Touch(a.yearly_wins, <<winner, year>>, 0), <<loser, year>>, 0)
        yl == Touch(Touch(a.yearly_losses, <<winner, year>>, 0), <<loser, year>>, 0)
        winner_wins_before == yw[<<winner, year>>]
        winner_losses_before == yl[<<winner, year>>]
        loser_wins_before == yw[<<loser, year>>]
        loser_losses_before == yl[<<loser, year>>]
        winner_total_before == winner_wins_before + winner_losses_before
        loser_total_before == loser_wins_before + loser_losses_before
    IN  [acc |-> [yearly_wins |-> yw, yearly_losses |-> yl],
         loc |-> <<>>,
         emit |-> [winner |-> [wins_ytd |-> winner_wins_before,
                               losses_ytd |-> winner_losses_before,
                               win_pct_ytd |-> Pct(winner_wins_before, winner_total_before)],
                   loser |-> [wins_ytd |-> loser_wins_before,
                              losses_ytd |-> loser_losses_before,
                              win_pct_ytd |-> Pct(loser_wins_before, loser_total_before)]]]

\* An update that books the result on the wrong side.
CommitYearlySwapped(a, row, l) ==
    [yearly_wins |-> Inc(a.yearly_wins, <<row.loser_player_name, row.tournament_year>>, 1),
     yearly_losses |-> Inc(a.yearly_losses, <<row.winner_player_name, row.tournament_year>>, 1)]

\* An update that keeps the counters of the row's year alone.
CommitYearlyFreshYear(a, row, l) ==
    LET year == row.tournament_year
        wins == Inc(a.yearly_wins, <<row.winner_player_name, year>>, 1)
        losses == Inc(a.yearly_losses, <<row.loser_player_name, year>>, 1)
    IN  [yearly_wins |-> [k \in {x \in DOMAIN wins : x[2] = year} |-> wins[k]],
         yearly_losses |-> [k \in {x \in DOMAIN losses : x[2] = year} |-> losses[k]]]

\* Lines 64-65: the counters' update.
CommitYearly(a, row, l) ==
    [yearly_wins |-> Inc(a.yearly_wins, <<row.winner_player_name, row.tournament_year>>, 1),
     yearly_losses |-> Inc(a.yearly_losses, <<row.loser_player_name, row.tournament_year>>, 1)]

----------------------------------------------------------------------------
(* 04_win_computer.py: compute_h2h_stats. *)

InitH2H == [h2h_records |-> EmptyDict]

\* A key that keeps the order of the row.
H2HKeyAsPlayed(winner, loser) ==
    [h2h_key |-> <<winner, loser>>, winner_is_first |-> TRUE]

\* Lines 98-103: the pair's key, the two names in alphabetical order.
H2HKey(winner, loser) ==
    IF StrLess(winner, loser)
    THEN [h2h_key |-> <<winner, loser>>, winner_is_first |-> TRUE]
    ELSE [h2h_key |-> <<loser, winner>>, winner_is_first |-> FALSE]

\* A loop body that reads the loser's side after the winner's update.
ReadH2HLoserLate(a, row) ==
    LET winner == row.winner_player_name
        loser == row.loser_player_name
        key == H2HKey(winner, loser)
        recs == Touch(a.h2h_records, key.h2h_key, <<0, 0>>)
        current_record == recs[key.h2h_key]
        w == IF key.winner_is_first THEN current_record[1] ELSE current_record[2]
        l == IF key.winner_is_first THEN current_record[2] ELSE current_record[1]
    IN  [acc |-> [h2h_records |-> recs],
         loc |-> key,
         emit |-> [winner |-> [h2h_wins |-> w, h2h_losses |-> l],
                   loser |-> [h2h_wins |-> l, h2h_losses |-> w + 1]]]

\* Lines 94-125: the record before this match, and its append.
ReadH2H(a, row) ==
    LET winner == row.winner_player_name
        loser == row.loser_player_name
        key == H2HKey(winner, loser)
        recs == Touch(a.h2h_records, key.h2h_key, <<0, 0>>)
        current_record == recs[key.h2h_key]
        w == IF key.winner_is_first THEN current_record[1] ELSE current_record[2]
        l == IF key.winner_is_first THEN current_record[2] ELSE current_record[1]
    IN  [acc |-> [h2h_records |-> recs],
         loc |-> key,
         emit |-> [winner |-> [h2h_wins |-> w, h2h_losses |-> l],
                   loser |-> [h2h_wins |-> l, h2h_losses |-> w]]]

\* An update that always adds to the first side of the pair.
CommitH2HFirstSide(a, row, l) ==
    [h2h_records |-> IncAt(a.h2h_records, l.h2h_key, 1)]

\* Lines 128-131: the winner's side of the pair grows by one.
CommitH2H(a, row, l) ==
    [h2h_records |-> IncAt(a.h2h_records, l.h2h_key, IF l.winner_is_first THEN 1 ELSE 2)]

----------------------------------------------------------------------------
(* 05_breakpoints_and_tiebreak_computer.py: count_tiebreaks_in_score. *)

Digits == {"0", "1", "2", "3", "4", "5", "6", "7", "8", "9"}

IsSpace(c) == c = " "

\* str.strip(): leading and trailing whitespace removed.
Strip(s) ==
    LET inked == {k \in 1..Len(s) : ~IsSpace(s[k])}
    IN  IF inked = {} THEN <<>>
        ELSE SubSeq(s, CHOOSE k \in inked : \A j \in inked : k <= j,
                       CHOOSE k \in inked : \A j \in inked : j <= k)

\* str.split(): the maximal runs of non-whitespace characters, in order.
RECURSIVE SplitFrom(_, _, _, _)
SplitFrom(s, k, cur, out) ==
    IF k > Len(s) THEN (IF cur = <<>> THEN out ELSE Append(out, cur))
    ELSE IF IsSpace(s[k])
         THEN SplitFrom(s, k + 1, <<>>, IF cur = <<>> THEN out ELSE Append(out, cur))
         ELSE SplitFrom(s, k + 1, Append(cur, s[k]), out)

Split(s) == SplitFrom(s, 1, <<>>, <<>>)

\* The end of a match of \([0-9]+\) that starts at k, or 0.
ParenMatchEnd(s, k) ==
    IF s[k] # "(" THEN 0
    ELSE LET ends == {e \in (k + 2)..Len(s) :
                         /\ s[e] = ")"
                         /\ \A j \in (k + 1)..(e - 1) : s[j] \in Digits}
         IN  IF ends = {} THEN 0 ELSE CHOOSE e \in ends : TRUE

\* re.sub(r'\([0-9]+\)', '', s): every match removed, left to right.
RECURSIVE ReSubFrom(_, _, _)
ReSubFrom(s, k, out) ==
    IF k > Len(s) THEN out
    ELSE IF ParenMatchEnd(s, k) > 0 THEN ReSubFrom(s, ParenMatchEnd(s, k) + 1, out)
         ELSE ReSubFrom(s, k + 1, Append(out, s[k]))

ReSub(s) == ReSubFrom(s, 1, <<>>)

\* pat in s
Contains(s, pat) ==
    \E k \in 1..(Len(s) - Len(pat) + 1) : SubSeq(s, k, k + Len(pat) - 1) = pat

Str76 == <<"7", "-", "6">>
Str67 == <<"6", "-", "7">>

\* A credit rule that gives the match winner the tiebreak of a 6-7 set as well.
SetCreditWinnerBoth(set_main, player_won_match) ==
    IF Contains(set_main, Str76) \/ Contains(set_main, Str67)
    THEN [won |-> IF player_won_match THEN 1 ELSE 0, played |-> 1]
    ELSE [won |-> 0, played |-> 0]

\* A tiebreak set counted as won by whichever player is asked about.
SetCreditEither(set_main, player_won_match) ==
    IF Contains(set_main, Str76) \/ Contains(set_main, Str67)
    THEN [won |-> 1, played |-> 1]
    ELSE [won |-> 0, played |-> 0]

\* Lines 44-55: what one set adds to (tiebreaks_won, tiebreaks_played).
SetCredit(set_main, player_won_match) ==
    IF Contains(set_main, Str76)
    THEN [won |-> IF player_won_match THEN 1 ELSE 0, played |-> 1]
    ELSE IF Contains(set_main, Str67)
         THEN [won |-> IF ~player_won_match THEN 1 ELSE 0, played |-> 1]
         ELSE [won |-> 0, played |-> 0]

RECURSIVE TallySets(_, _, _, _)
TallySets(sets, k, player_won_match, tally) ==
    IF k > Len(sets) THEN tally
    ELSE LET c == SetCredit(ReSub(sets[k]), player_won_match)
         IN  TallySets(sets, k + 1, player_won_match,
                       [won |-> tally.won + c.won, played |-> tally.played + c.played])

count_tiebreaks_in_score(score, player_won_match) ==
    IF ~notna(score) \/ score = Some(<<>>) THEN [won |-> 0, played |-> 0]
    ELSE TallySets(Split(Strip(score[1])), 1, player_won_match, [won |-> 0, played |-> 0])

----------------------------------------------------------------------------
(* 05_breakpoints_and_tiebreak_computer.py:                                *)
(* compute_breakpoint_and_tiebreak_stats.                                  *)

BpTbDicts == {"career_bp_won", "career_bp_faced", "career_tb_won", "career_tb_played",
              "yearly_bp_won", "yearly_bp_faced", "yearly_tb_won", "yearly_tb_played"}

InitBpTb == [d \in BpTbDicts |-> EmptyDict]

\* Yearly cells keyed by the player alone.
BpTbKeyPlayerOnly(d, player, year) == IF d \in BpTbDicts THEN player ELSE <<player, year>>

\* The key of a player's cell in a dictionary: yearly ones are player -> year.
BpTbKey(d, player, year) ==
    IF d \in {"yearly_bp_won", "yearly_bp_faced", "yearly_tb_won", "yearly_tb_played"}
    THEN <<player, year>> ELSE player

\* Lines 135-205: one side's stats before this match, with the percentages.
BpTbBefore(a, player, year) ==
    LET v(d) == a[d][BpTbKey(d, player, year)]
    IN  [bp_won_ytd |-> v("yearly_bp_won"),
         bp_faced_ytd |-> v("yearly_bp_faced"),
         bp_pct_ytd |-> Pct(v("yearly_bp_won"), v("yearly_bp_faced")),
         bp_won_career |-> v("career_bp_won"),
         bp_faced_career |-> v("career_bp_faced"),
         bp_pct_career |-> Pct(v("career_bp_won"), v("career_bp_faced")),
         tb_won_ytd |-> v("yearly_tb_won"),
         tb_played_ytd |-> v("yearly_tb_played"),
         tb_pct_ytd |-> Pct(v("yearly_tb_won"), v("yearly_tb_played")),
         tb_won_career |-> v("career_tb_won"),
         tb_played_career |-> v("career_tb_played"),
         tb_pct_career |-> Pct(v("career_tb_won"), v("career_tb_played"))]

\* Lines 116-205: this match's own numbers, the stats before it, their append.
ReadBpTb(a, row) ==
    LET year == row.tournament_year
        winner == row.winner_player_name
        loser == row.loser_player_name
        w == count_tiebreaks_in_score(row.final_score, TRUE)
        l == count_tiebreaks_in_score(row.final_score, FALSE)
        read == [d \in BpTbDicts |->
                    Touch(Touch(a[d], BpTbKey(d, winner, year), 0),
                          BpTbKey(d, loser, year), 0)]
    IN  [acc |-> read,
         loc |-> [winner_bp_saved |-> OrZero(row.winner_break_points_saved),
                  winner_bp_faced_match |-> OrZero(row.winner_break_points_faced),
                  loser_bp_saved |-> OrZero(row.loser_break_points_saved),
                  loser_bp_faced_match |-> OrZero(row.loser_break_points_faced),
                  winner_tb_won_match |-> w.won,
                  winner_tb_played_match |-> w.played,
                  loser_tb_won_match |-> l.won,
                  loser_tb_played_match |-> l.played],
         emit |-> [winner |-> BpTbBefore(read, winner, year),
                   loser |-> BpTbBefore(read, loser, year)]]

\* An update that books the tiebreaks played for the winner only.
CommitBpTbPlayedByWinner(a, row, l) ==
    LET year == row.tournament_year
        winner == row.winner_player_name
        loser == row.loser_player_name
        both(d, wn, ln) == Inc(Inc(a[d], BpTbKey(d, winner, year), wn),
                               BpTbKey(d, loser, year), ln)
    IN  [yearly_bp_won |-> both("yearly_bp_won", l.winner_bp_saved, l.loser_bp_saved),
         yearly_bp_faced |->
             both("yearly_bp_faced", l.winner_bp_faced_match, l.loser_bp_faced_match),
         yearly_tb_won |-> both("yearly_tb_won", l.winner_tb_won_match, l.loser_tb_won_match),
         yearly_tb_played |-> both("yearly_tb_played", l.winner_tb_played_match, 0),
         career_bp_won |-> both("career_bp_won", l.winner_bp_saved, l.loser_bp_saved),
         career_bp_faced |->
             both("career_bp_faced", l.winner_bp_faced_match, l.loser_bp_faced_match),
         career_tb_won |-> both("career_tb_won", l.winner_tb_won_match, l.loser_tb_won_match),
         career_tb_played |-> both("career_tb_played", l.winner_tb_played_match, 0)]

\* Lines 209-228: the update of the eight counters, the winner's then the loser's.
CommitBpTb(a, row, l) ==
    LET year == row.tournament_year
        winner == row.winner_player_name
        loser == row.loser_player_name
        both(d, wn, ln) == Inc(Inc(a[d], BpTbKey(d, winner, year), wn),
                               BpTbKey(d, loser, year), ln)
    IN  [yearly_bp_won |-> both("yearly_bp_won", l.winner_bp_saved, l.loser_bp_saved),
         yearly_bp_faced |->
             both("yearly_bp_faced", l.winner_bp_faced_match, l.loser_bp_faced_match),
         yearly_tb_won |-> both("yearly_tb_won", l.winner_tb_won_match, l.loser_tb_won_match),
         yearly_tb_played |->
             both("yearly_tb_played", l.winner_tb_played_match, l.loser_tb_played_match),
         career_bp_won |-> both("career_bp_won", l.winner_bp_saved, l.loser_bp_saved),
         career_bp_faced |->
             both("career_bp_faced", l.winner_bp_faced_match, l.loser_bp_faced_match),
         career_tb_won |-> both("career_tb_won", l.winner_tb_won_match, l.loser_tb_won_match),
         career_tb_played |->
             both("career_tb_played", l.winner_tb_played_match, l.loser_tb_played_match)]

----------------------------------------------------------------------------
(* 06_features_adder.py: compute_surface_specific_stats. *)

InitSurface == [surface_stats |-> EmptyDict]

EmittedSurfaces == <<"Clay", "Grass", "Hard">>

\* Lines 69-71: calc_pct.
calc_pct(wins, losses) == Pct(wins, wins + losses)

\* Lines 60-97: one side's three surface records before this match.
SurfaceBefore(stats, player) ==
    LET clay == stats[<<player, "Clay">>]
        grass == stats[<<player, "Grass">>]
        hard == stats[<<player, "Hard">>]
    IN  [clay_wins |-> clay[1], clay_losses |-> clay[2],
         clay_win_pct |-> calc_pct(clay[1], clay[2]),
         grass_wins |-> grass[1], grass_losses |-> grass[2],
         grass_win_pct |-> calc_pct(grass[1], grass[2]),
         hard_wins |-> hard[1], hard_losses |-> hard[2],
         hard_win_pct |-> calc_pct(hard[1], hard[2])]

RECURSIVE TouchAll(_, _, _, _)
TouchAll(d, keys, k, zero) ==
    IF k > Len(keys) THEN d ELSE TouchAll(Touch(d, keys[k], zero), keys, k + 1, zero)

\* A read that creates an unseen record as one win.
ReadSurfaceCreatingOne(a, row) ==
    LET winner == row.winner_player_name
        loser == row.loser_player_name
        keys == [k \in 1..6 |-> IF k <= 3 THEN <<winner, EmittedSurfaces[k]>>
                                         ELSE <<loser, EmittedSurfaces[k - 3]>>]
        stats == TouchAll(a.surface_stats, keys, 1, <<1, 0>>)
    IN  [acc |-> [surface_stats |-> stats],
         loc |-> <<>>,
         emit |-> [winner |-> SurfaceBefore(stats, winner),
                   loser |-> SurfaceBefore(stats, loser)]]

\* Lines 60-97: the six records are read, created where unseen, and appended.
ReadSurface(a, row) ==
    LET winner == row.winner_player_name
        loser == row.loser_player_name
        keys == [k \in 1..6 |-> IF k <= 3 THEN <<winner, EmittedSurfaces[k]>>
                                         ELSE <<loser, EmittedSurfaces[k - 3]>>]
        stats == TouchAll(a.surface_stats, keys, 1, <<0, 0>>)
    IN  [acc |-> [surface_stats |-> stats],
         loc |-> <<>>,
         emit |-> [winner |-> SurfaceBefore(stats, winner),
                   loser |-> SurfaceBefore(stats, loser)]]

\* An update that books every match on hard court.
CommitSurfaceAsHard(a, row, l) ==
    [surface_stats |->
        IncAt(IncAt(a.surface_stats, <<row.winner_player_name, "Hard">>, 1),
              <<row.loser_player_name, "Hard">>, 2)]

\* Lines 100-101.
CommitSurface(a, row, l) ==
    LET surface == row.court_surface
    IN  [surface_stats |->
            IncAt(IncAt(a.surface_stats, <<row.winner_player_name, surface>>, 1),
                  <<row.loser_player_name, surface>>, 2)]

----------------------------------------------------------------------------
(* 06_features_adder.py: compute_recent_form. *)

InitForm == [recent_results |-> EmptyDict]

RECURSIVE SumFrom(_, _)
SumFrom(l, k) == IF k > Len(l) THEN 0 ELSE l[k] + SumFrom(l, k + 1)

\* A sum over the whole list, with no window.
SumAll(l, n) == SumFrom(l, 1)

\* A window that is cut one entry too long.
SumLastOffByOne(l, n) == SumFrom(l, IF Len(l) > n + 1 THEN Len(l) - n ELSE 1)

\* A window taken at the old end of the list.
SumFirst(l, n) == SumFrom(SubSeq(l, 1, IF Len(l) > n THEN n ELSE Len(l)), 1)

\* sum(l[-n:])
SumLast(l, n) == SumFrom(l, IF Len(l) > n THEN Len(l) - n + 1 ELSE 1)

\* Lines 146-153.
ReadForm(a, row) ==
    LET winner == row.winner_player_name
        loser == row.loser_player_name
        results == Touch(Touch(a.recent_results, winner, <<>>), loser, <<>>)
        w_results == results[winner]
        l_results == results[loser]
    IN  [acc |-> [recent_results |-> results],
         loc |-> <<>>,
         emit |-> [winner |-> [last5_wins |-> SumLast(w_results, 5),
                               last10_wins |-> SumLast(w_results, 10)],
                   loser |-> [last5_wins |-> SumLast(l_results, 5),
                              last10_wins |-> SumLast(l_results, 10)]]]

\* Lines 156-157: recent_results[winner].append(1), recent_results[loser].append(0).
CommitForm(a, row, l) ==
    LET winner == row.winner_player_name
        loser == row.loser_player_name
        r1 == Touch(a.recent_results, winner, <<>>)
        r2 == [r1 EXCEPT ![winner] = Append(@, 1)]
        r3 == Touch(r2, loser, <<>>)
    IN  [recent_results |-> [r3 EXCEPT ![loser] = Append(@, 0)]]

----------------------------------------------------------------------------
(* 06_features_adder.py: compute_fatigue_and_experience. *)

InitFatigue == [last_match_date |-> EmptyDict, total_matches |-> EmptyDict]

\* The day number of the calendar date y-m-d (days since 1970-01-01).
DaysFromCivil(y, m, d) ==
    LET yy == IF m <= 2 THEN y - 1 ELSE y
        era == yy \div 400
        yoe == yy - era * 400
        mp == (m + 9) % 12
        doy == (153 * mp + 2) \div 5 + d - 1
        doe == yoe * 365 + yoe \div 4 - yoe \div 100 + doy
    IN  era * 146097 + doe - 719468

\* pd.to_datetime(str(date), format='%Y%m%d'), as a day number.
to_datetime(date) == DaysFromCivil(date \div 10000, (date \div 100) % 100, date % 100)

\* A first appearance that emits 0 days.
DaysSinceZeroFirst(last_match_date, player, match_date) ==
    IF player \in DOMAIN last_match_date
    THEN Some(match_date - last_match_date[player])
    ELSE Some(0)

\* Lines 187-197: the days since the player's last match, NaN on a first match.
DaysSince(last_match_date, player, match_date) ==
    IF player \in DOMAIN last_match_date
    THEN Some(match_date - last_match_date[player])
    ELSE NaN

\* Lines 182-201.
ReadFatigue(a, row) ==
    LET winner == row.winner_player_name
        loser == row.loser_player_name
        match_date == to_datetime(row.tournament_date)
        total == Touch(Touch(a.total_matches, winner, 0), loser, 0)
    IN  [acc |-> [last_match_date |-> a.last_match_date, total_matches |-> total],
         loc |-> [match_date |-> match_date],
         emit |-> [winner |-> [days_since_last_match |->
                                   DaysSince(a.last_match_date, winner, match_date),
                               career_matches |-> total[winner]],
                   loser |-> [days_since_last_match |->
                                  DaysSince(a.last_match_date, loser, match_date),
                              career_matches |-> total[loser]]]]

\* dict[k] = v
SetItem(d, k, v) == [x \in DOMAIN d \cup {k} |-> IF x = k THEN v ELSE d[x]]

\* An update that leaves the loser's last date as it was.
CommitFatigueWinnerDateOnly(a, row, l) ==
    LET winner == row.winner_player_name
        loser == row.loser_player_name
    IN  [last_match_date |-> SetItem(a.last_match_date, winner, l.match_date),
         total_matches |-> Inc(Inc(a.total_matches, winner, 1), loser, 1)]

\* An update that counts the match for the winner alone.
CommitFatigueWinnerCountOnly(a, row, l) ==
    LET winner == row.winner_player_name
        loser == row.loser_player_name
    IN  [last_match_date |->
            SetItem(SetItem(a.last_match_date, winner, l.match_date), loser, l.match_date),
         total_matches |-> Inc(a.total_matches, winner, 1)]

\* Lines 204-207.
CommitFatigue(a, row, l) ==
    LET winner == row.winner_player_name
        loser == row.loser_player_name
    IN  [last_match_date |->
            SetItem(SetItem(a.last_match_date, winner, l.match_date), loser, l.match_date),
         total_matches |-> Inc(Inc(a.total_matches, winner, 1), loser, 1)]

----------------------------------------------------------------------------
(* 06_features_adder.py: compute_serve_stats. *)

InitServe == [serve_stats |-> EmptyDict]

ServeZero == <<0, 0, 0, 0, 0>>

\* Lines 238-248: one side's raw counters, a null one read as 0.
ServeOfMatch(row, side) ==
    <<OrZero(row[side][1]), OrZero(row[side][2]), OrZero(row[side][3]),
      OrZero(row[side][4]), OrZero(row[side][5])>>

\* Lines 255-269: [first_in, serve_pts, aces, dfs, service_games] as rates.
ServeBefore(st) ==
    [first_serve_pct_career |-> Pct(st[1], st[2]),
     aces_per_service_game |-> Rate(st[3], st[5]),
     df_per_service_game |-> Rate(st[4], st[5])]

ReadServe(a, row) ==
    LET winner == row.winner_player_name
        loser == row.loser_player_name
        stats == Touch(Touch(a.serve_stats, winner, ServeZero), loser, ServeZero)
    IN  [acc |-> [serve_stats |-> stats],
         loc |-> [w |-> ServeOfMatch(row, "winner_serve"),
                  l |-> ServeOfMatch(row, "loser_serve")],
         emit |-> [winner |-> ServeBefore(stats[winner]),
                   loser |-> ServeBefore(stats[loser])]]

\* Lines 272-282: the winner's five counters, then the loser's.
CommitServe(a, row, l) ==
    LET winner == row.winner_player_name
        loser == row.loser_player_name
        s0 == Touch(a.serve_stats, winner, ServeZero)
        s1 == [s0 EXCEPT ![winner] = [k \in 1..5 |-> @[k] + l.w[k]]]
        s2 == Touch(s1, loser, ServeZero)
    IN  [serve_stats |-> [s2 EXCEPT ![loser] = [k \in 1..5 |-> @[k] + l.l[k]]]]

----------------------------------------------------------------------------
(* 06_features_adder.py: compute_additional_features. *)

\* a - b on two nullable columns.
NSub(a, b) == IF notna(a) /\ notna(b) THEN Some(a[1] - b[1]) ELSE NaN

\* column.fillna(v)
fillna(a, v) == IF notna(a) THEN a[1] ELSE v

LowerOf ==
    "A" :> "a" @@ "B" :> "b" @@ "C" :> "c" @@ "D" :> "d" @@ "E" :> "e" @@ "F" :> "f" @@
    "G" :> "g" @@ "H" :> "h" @@ "I" :> "i" @@ "J" :> "j" @@ "K" :> "k" @@ "L" :> "l" @@
    "M" :> "m" @@ "N" :> "n" @@ "O" :> "o" @@ "P" :> "p" @@ "Q" :> "q" @@ "R" :> "r" @@
    "S" :> "s" @@ "T" :> "t" @@ "U" :> "u" @@ "V" :> "v" @@ "W" :> "w" @@ "X" :> "x" @@
    "Y" :> "y" @@ "Z" :> "z"

Lower(str) == [k \in 1..Len(str) |-> IF str[k] \in DOMAIN LowerOf THEN LowerOf[str[k]] ELSE str[k]]

\* Lines 307-325.
country_keywords ==
  <<
    [country |-> "AUS", keywords |->
         <<<<"A", "u", "s", "t", "r", "a", "l", "i", "a", "n">>,
          <<"B", "r", "i", "s", "b", "a", "n", "e">>,
          <<"S", "y", "d", "n", "e", "y">>,
          <<"M", "e", "l", "b", "o", "u", "r", "n", "e">>,
          <<"A", "d", "e", "l", "a", "i", "d", "e">>>>],
    [country |-> "USA", keywords |->
         <<<<"U", "S", " ", "O", "p", "e", "n">>,
          <<"I", "n", "d", "i", "a", "n", " ", "W", "e", "l", "l", "s">>,
          <<"M", "i", "a", "m", "i">>,
          <<"C", "i", "n", "c", "i", "n", "n", "a", "t", "i">>,
          <<"W", "a", "s", "h", "i", "n", "g", "t", "o", "n">>,
          <<"A", "t", "l", "a", "n", "t", "a">>,
          <<"H", "o", "u", "s", "t", "o", "n">>,
          <<"N", "e", "w", "p", "o", "r", "t">>,
          <<"S", "a", "n", " ", "D", "i", "e", "g", "o">>,
          <<"L", "o", "s", " ", "A", "n", "g", "e", "l", "e", "s">>,
          <<"L", "a", "s", " ", "V", "e", "g", "a", "s">>>>],
    [country |-> "FRA", keywords |->
         <<<<"F", "r", "e", "n", "c", "h", " ", "O", "p", "e", "n">>,
          <<"R", "o", "l", "a", "n", "d", " ", "G", "a", "r", "r", "o", "s">>,
          <<"P", "a", "r", "i", "s">>,
          <<"L", "y", "o", "n">>,
          <<"M", "a", "r", "s", "e", "i", "l", "l", "e">>,
          <<"M", "o", "n", "t", "p", "e", "l", "l", "i", "e", "r">>,
          <<"M", "e", "t", "z">>>>],
    [country |-> "GBR", keywords |->
         <<<<"W", "i", "m", "b", "l", "e", "d", "o", "n">>,
          <<"L", "o", "n", "d", "o", "n">>,
          <<"Q", "u", "e", "e", "n", "s">>,
          <<"E", "a", "s", "t", "b", "o", "u", "r", "n", "e">>,
          <<"B", "i", "r", "m", "i", "n", "g", "h", "a", "m">>,
          <<"N", "o", "t", "t", "i", "n", "g", "h", "a", "m">>>>],
    [country |-> "ESP", keywords |->
         <<<<"M", "a", "d", "r", "i", "d">>,
          <<"B", "a", "r", "c", "e", "l", "o", "n", "a">>,
          <<"V", "a", "l", "e", "n", "c", "i", "a">>,
          <<"M", "a", "l", "l", "o", "r", "c", "a">>>>],
    [country |-> "ITA", keywords |->
         <<<<"R", "o", "m", "e">>,
          <<"I", "t", "a", "l", "i", "a", "n", " ", "O", "p", "e", "n">>,
          <<"M", "i", "l", "a", "n">>,
          <<"F", "l", "o", "r", "e", "n", "c", "e">>>>],
    [country |-> "GER", keywords |->
         <<<<"H", "a", "m", "b", "u", "r", "g">>,
          <<"M", "u", "n", "i", "c", "h">>,
          <<"H", "a", "l", "l", "e">>,
          <<"S", "t", "u", "t", "t", "g", "a", "r", "t">>>>],
    [country |-> "CHN", keywords |->
         <<<<"S", "h", "a", "n", "g", "h", "a", "i">>,
          <<"B", "e", "i", "j", "i", "n", "g">>,
          <<"S", "h", "e", "n", "z", "h", "e", "n">>>>],
    [country |-> "JPN", keywords |->
         <<<<"T", "o", "k", "y", "o">>,
          <<"J", "a", "p", "a", "n", " ", "O", "p", "e", "n">>>>],
    [country |-> "CAN", keywords |->
         <<<<"M", "o", "n", "t", "r", "e", "a", "l">>,
          <<"T", "o", "r", "o", "n", "t", "o">>,
          <<"R", "o", "g", "e", "r", "s", " ", "C", "u", "p">>,
          <<"C", "a", "n", "a", "d", "a">>>>],
    [country |-> "NED", keywords |->
         <<<<"R", "o", "t", "t", "e", "r", "d", "a", "m">>,
          <<"N", "e", "t", "h", "e", "r", "l", "a", "n", "d", "s">>>>],
    [country |-> "SUI", keywords |->
         <<<<"B", "a", "s", "e", "l">>,
          <<"G", "e", "n", "e", "v", "a">>>>],
    [country |-> "BRA", keywords |->
         <<<<"R", "i", "o">>,
          <<"S", "a", "o", " ", "P", "a", "u", "l", "o">>,
          <<"B", "r", "a", "z", "i", "l">>>>],
    [country |-> "ARG", keywords |->
         <<<<"B", "u", "e", "n", "o", "s", " ", "A", "i", "r", "e", "s">>,
          <<"A", "r", "g", "e", "n", "t", "i", "n", "a">>>>],
    [country |-> "RSA", keywords |->
         <<<<"S", "o", "u", "t", "h", " ", "A", "f", "r", "i", "c", "a">>>>],
    [country |-> "SWE", keywords |->
         <<<<"S", "t", "o", "c", "k", "h", "o", "l", "m">>,
          <<"S", "w", "e", "d", "e", "n">>>>],
    [country |-> "AUT", keywords |->
         <<<<"V", "i", "e", "n", "n", "a">>,
          <<"A", "u", "s", "t", "r", "i", "a">>>>]
  >>

\* df['tournament_name'].str.contains(keyword, case=False, na=False)
NameContains(name, keyword) == notna(name) /\ Contains(Lower(name[1]), Lower(keyword))

\* Lines 327-331: 1 if a keyword of the player's country is in the tournament name.
IsHome(name, country_code) ==
    IF \E c \in 1..Len(country_keywords) :
          /\ country_keywords[c].country = country_code
          /\ \E k \in 1..Len(country_keywords[c].keywords) :
                NameContains(name, country_keywords[c].keywords[k])
    THEN 1 ELSE 0

\* Lines 356-362: the difference on the row's surface, 0.0 off Clay, Grass and Hard.
SurfaceWinPctDiff(row) ==
    CASE row.court_surface = "Clay" ->
             row.surface.winner.clay_win_pct - row.surface.loser.clay_win_pct
      [] row.court_surface = "Grass" ->
             row.surface.winner.grass_win_pct - row.surface.loser.grass_win_pct
      [] row.court_surface = "Hard" ->
             row.surface.winner.hard_win_pct - row.surface.loser.hard_win_pct
      [] OTHER -> 0

\* A flag that is also set on equal ranks.
IsUpsetOrEqual(winner_rank, loser_rank) ==
    IF notna(winner_rank) /\ notna(loser_rank) /\ winner_rank[1] >= loser_rank[1] THEN 1 ELSE 0

\* Line 368: a comparison with NaN is False.
IsUpset(winner_rank, loser_rank) ==
    IF notna(winner_rank) /\ notna(loser_rank) /\ winner_rank[1] > loser_rank[1] THEN 1 ELSE 0

\* Lines 371-381: the dictionary, as the set of its items.
round_importance ==
    {<<"F", 7>>, <<"SF", 6>>, <<"QF", 5>>, <<"R16", 4>>, <<"R32", 3>>, <<"R64", 2>>,
     <<"R128", 1>>, <<"RR", 3>>, <<"BR", 1>>}

\* Series.map(dict): the value of the key, NaN for a cell that is no key.
MapDict(cell, dict) ==
    IF notna(cell) /\ \E item \in dict : item[1] = cell[1]
    THEN Some((CHOOSE item \in dict : item[1] = cell[1])[2])
    ELSE NaN

\* A table that gives a code outside it no value.
RoundImportanceZeroOutside(round) == fillna(MapDict(round, round_importance), 0)

\* Line 382: df['tournament_round'].map(round_importance).fillna(1)
RoundImportance(round) == fillna(MapDict(round, round_importance), 1)

\* Lines 299-382: the derived columns of one row.
Derived(row) ==
    [rank_diff |-> NSub(row.loser_atp_rank, row.winner_atp_rank),
     winner_is_home |-> IsHome(row.tournament_name, row.winner_country_code),
     loser_is_home |-> IsHome(row.tournament_name, row.loser_country_code),
     height_diff_cm |-> NSub(row.winner_height_cm, row.loser_height_cm),
     age_diff_years |-> NSub(row.winner_age_years, row.loser_age_years),
     atp_points_diff |-> NSub(row.winner_atp_points, row.loser_atp_points),
     experience_diff |->
         row.fatigue.winner.career_matches - row.fatigue.loser.career_matches,
     momentum_last5 |-> row.form.winner.last5_wins - row.form.loser.last5_wins,
     momentum_last10 |-> row.form.winner.last10_wins - row.form.loser.last10_wins,
     h2h_diff |-> row.h2h.winner.h2h_wins - row.h2h.loser.h2h_wins,
     ytd_win_pct_diff |-> row.yearly.winner.win_pct_ytd - row.yearly.loser.win_pct_ytd,
     surface_win_pct_diff |-> SurfaceWinPctDiff(row),
     seed_diff |-> fillna(row.loser_tournament_seed, 999)
                       - fillna(row.winner_tournament_seed, 999),
     is_upset |-> IsUpset(row.winner_atp_rank, row.loser_atp_rank),
     round_importance |-> RoundImportance(row.tournament_round)]

\* The columns of the input that compute_additional_features reads.
AdditionalColumns ==
    {"winner_atp_rank", "loser_atp_rank", "tournament_name",
     "winner_country_code", "loser_country_code",
     "winner_height_cm", "loser_height_cm", "winner_age_years", "loser_age_years",
     "winner_atp_points", "loser_atp_points", "court_surface",
     "winner_tournament_seed", "loser_tournament_seed", "tournament_round"}

compute_additional_features(rows) ==
    [k \in 1..Len(rows) |-> rows[k] @@ ("derived" :> Derived(rows[k]))]

----------------------------------------------------------------------------
(* The passes. *)

InitAcc(fn) ==
    CASE fn = "yearly" -> InitYearly
      [] fn = "h2h" -> InitH2H
      [] fn = "bptb" -> InitBpTb
      [] fn = "surface" -> InitSurface
      [] fn = "form" -> InitForm
      [] fn = "fatigue" -> InitFatigue
      [] fn = "serve" -> InitServe

ReadRow(fn, a, row) ==
    CASE fn = "yearly" -> ReadYearly(a, row)
      [] fn = "h2h" -> ReadH2H(a, row)
      [] fn = "bptb" -> ReadBpTb(a, row)
      [] fn = "surface" -> ReadSurface(a, row)
      [] fn = "form" -> ReadForm(a, row)
      [] fn = "fatigue" -> ReadFatigue(a, row)
      [] fn = "serve" -> ReadServe(a, row)

CommitRow(fn, a, row, l) ==
    CASE fn = "yearly" -> CommitYearly(a, row, l)
      [] fn = "h2h" -> CommitH2H(a, row, l)
      [] fn = "bptb" -> CommitBpTb(a, row, l)
      [] fn = "surface" -> CommitSurface(a, row, l)
      [] fn = "form" -> CommitForm(a, row, l)
      [] fn = "fatigue" -> CommitFatigue(a, row, l)
      [] fn = "serve" -> CommitServe(a, row, l)

Passes == {"yearly", "h2h", "bptb", "surface", "form", "fatigue", "serve"}

At(fn, at) == [pc EXCEPT !.fn = fn, !.at = at]

\* The dataframe has the columns cols.  A dataframe without rows is taken to
\* have every column: the files here that have no rows have a full header.
HasColumns(rows, cols) == IF Len(rows) = 0 THEN TRUE ELSE cols \subseteq DOMAIN rows[1]

\* Series.str on the column: an object column, or one without rows, has the
\* accessor; a column whose cells are all null is read as float64 and has not.
HasStrAccessor(rows, col) ==
    IF Len(rows) = 0 THEN TRUE ELSE \E k \in 1..Len(rows) : notna(rows[k][col])

\* compute_additional_features runs on the rows without an exception.
CanAdd(rows) ==
    IF HasColumns(rows, AdditionalColumns) THEN HasStrAccessor(rows, "tournament_name")
    ELSE FALSE

SortColumns == {"tournament_date", "match_number"}

\* The columns a pass's loop body reads from the row.
ColumnsRead(fn) ==
    {"winner_player_name", "loser_player_name"} \cup
    CASE fn = "yearly" -> {"tournament_year"}
      [] fn = "h2h" -> {}
      [] fn = "bptb" -> {"tournament_year", "final_score",
                         "winner_break_points_saved", "winner_break_points_faced",
                         "loser_break_points_saved", "loser_break_points_faced"}
      [] fn = "surface" -> {"court_surface"}
      [] fn = "form" -> {}
      [] fn = "fatigue" -> {"tournament_date"}
      [] fn = "serve" -> {"winner_serve", "loser_serve"}

DaysInMonth(y, m) ==
    IF m = 2 THEN (IF y % 4 = 0 /\ (y % 100 # 0 \/ y % 400 = 0) THEN 29 ELSE 28)
    ELSE IF m \in {4, 6, 9, 11} THEN 30 ELSE 31

\* pd.to_datetime(str(date), format='%Y%m%d') parses the date.
ValidDate(date) ==
    LET y == date \div 10000
        m == (date \div 100) % 100
        d == date % 100
    IN  /\ y >= 1 /\ y <= 9999
        /\ m >= 1 /\ m <= 12
        /\ d >= 1 /\ d <= DaysInMonth(y, m)

\* The first half of the loop body runs on the row without an exception.
CanRead(fn, row) ==
    /\ ColumnsRead(fn) \subseteq DOMAIN row
    /\ fn = "fatigue" => ValidDate(row.tournament_date)

\* A pass that goes on with the dictionaries and lists it finds.
SortStepStale ==
    /\ pc.fn \in Passes
    /\ pc.at = "sort"
    /\ df_sorted' = SortValues(df)
    /\ i' = 0
    /\ pc' = At(pc.fn, "loop")
    /\ UNCHANGED <<files, df, loc, acc, lists>>

\* df_sorted = df.sort_values([...]).copy(), then the empty dictionaries and lists.
SortStep ==
    /\ pc.fn \in Passes
    /\ pc.at = "sort"
    /\ HasColumns(df, SortColumns)
    /\ df_sorted' = SortValues(df)
    /\ acc' = InitAcc(pc.fn)
    /\ lists' = <<>>
    /\ i' = 0
    /\ pc' = At(pc.fn, "loop")
    /\ UNCHANGED <<files, df, loc>>

\* A loop body that updates the counters first and reads them afterwards.
LoopReadAfterUpdate ==
    /\ pc.fn \in Passes
    /\ pc.at = "loop"
    /\ i < Len(df_sorted)
    /\ LET r0 == ReadRow(pc.fn, acc, df_sorted[i + 1])
           r == ReadRow(pc.fn, CommitRow(pc.fn, r0.acc, df_sorted[i + 1], r0.loc),
                        df_sorted[i + 1])
       IN  /\ acc' = r0.acc
           /\ loc' = r0.loc
           /\ lists' = Append(lists, r.emit)
    /\ pc' = At(pc.fn, "update")
    /\ UNCHANGED <<files, df, df_sorted, i>>

\* The first half of the loop body: the stats before the match are read and appended.
LoopRead ==
    /\ pc.fn \in Passes
    /\ pc.at = "loop"
    /\ i < Len(df_sorted)
    /\ CanRead(pc.fn, df_sorted[i + 1])
    /\ LET r == ReadRow(pc.fn, acc, df_sorted[i + 1])
       IN  /\ acc' = r.acc
           /\ loc' = r.loc
           /\ lists' = Append(lists, r.emit)
    /\ pc' = At(pc.fn, "update")
    /\ UNCHANGED <<files, df, df_sorted, i>>

\* The second half of the loop body: the counters are updated.
LoopUpdate ==
    /\ pc.fn \in Passes
    /\ pc.at = "update"
    /\ acc' = CommitRow(pc.fn, acc, df_sorted[i + 1], loc)
    /\ loc' = <<>>
    /\ i' = i + 1
    /\ pc' = At(pc.fn, "loop")
    /\ UNCHANGED <<files, df, df_sorted, lists>>

\* After the loop: the lists become columns of df_sorted, which is returned.
AddColumns ==
    /\ pc.fn \in Passes
    /\ pc.at = "loop"
    /\ i = Len(df_sorted)
    /\ df_sorted' = [k \in 1..Len(df_sorted) |-> df_sorted[k] @@ (pc.fn :> lists[k])]
    /\ pc' = At(pc.fn, "done")
    /\ UNCHANGED <<files, df, i, acc, loc, lists>>

NextPass == SortStep \/ LoopRead \/ LoopUpdate \/ AddColumns

\* The script that writes a file, and the file it reads.
OutputOf(script) == script
InputOf(script) == CASE script = "04" -> "03" [] script = "05" -> "04" [] script = "06" -> "05"

\* sort_values raises KeyError: the exception ends the script.
SortRaises ==
    /\ pc.fn \in Passes
    /\ pc.at = "sort"
    /\ ~HasColumns(df, SortColumns)
    /\ pc' = At(pc.fn, "failed")
    /\ UNCHANGED <<files, df, df_sorted, i, acc, loc, lists>>

\* An exception that leaves what the loop had done so far in a file.
LoopRaisesSavingRows ==
    /\ pc.fn \in Passes
    /\ pc.at = "loop"
    /\ i < Len(df_sorted)
    /\ ~CanRead(pc.fn, df_sorted[i + 1])
    /\ pc' = At(pc.fn, "failed")
    /\ files' = [f \in DOMAIN files \cup {OutputOf(pc.script)} |->
                    IF f = OutputOf(pc.script)
                    THEN ToCsv([k \in 1..i |-> df_sorted[k] @@ (pc.fn :> lists[k])])
                    ELSE files[f]]
    /\ UNCHANGED <<df, df_sorted, i, acc, loc, lists>>

\* The loop body raises on the row (KeyError on a column the row has not,
\* ValueError on a date that is none): the exception ends the script, the
\* lists and dictionaries are dropped with the process.
LoopRaises ==
    /\ pc.fn \in Passes
    /\ pc.at = "loop"
    /\ i < Len(df_sorted)
    /\ ~CanRead(pc.fn, df_sorted[i + 1])
    /\ pc' = At(pc.fn, "failed")
    /\ UNCHANGED <<files, df, df_sorted, i, acc, loc, lists>>

----------------------------------------------------------------------------
(* 04_win_computer.py: compute_win_statistics. *)

\* Line 162.
required_cols ==
    {"winner_player_name", "loser_player_name", "tournament_year", "tournament_date"}

\* Lines 150-153 of 04, 280-283 of 05, 401-404 of 06: no input file, return.
MissingInput ==
    /\ pc.fn = "main"
    /\ pc.at = "start"
    /\ InputOf(pc.script) \notin DOMAIN files
    /\ pc' = At("main", "failed")
    /\ UNCHANGED <<files, df, df_sorted, i, acc, loc, lists>>

\* Lines 158-166: the file is read, a required column is missing, return None.
Main04MissingCols ==
    /\ pc = [script |-> "04", fn |-> "main", at |-> "start"]
    /\ "03" \in DOMAIN files
    /\ ~HasColumns(files["03"], required_cols)
    /\ df' = ReadCsv(files["03"])
    /\ pc' = At("main", "failed")
    /\ UNCHANGED <<files, df_sorted, i, acc, loc, lists>>

Main04Read ==
    /\ pc = [script |-> "04", fn |-> "main", at |-> "start"]
    /\ "03" \in DOMAIN files
    /\ HasColumns(files["03"], required_cols)
    /\ df' = ReadCsv(files["03"])
    /\ pc' = At("yearly", "sort")
    /\ UNCHANGED <<files, df_sorted, i, acc, loc, lists>>

Main04CallH2H ==
    /\ pc = [script |-> "04", fn |-> "yearly", at |-> "done"]
    /\ df' = df_sorted
    /\ pc' = At("h2h", "sort")
    /\ UNCHANGED <<files, df_sorted, i, acc, loc, lists>>

Main04Write ==
    /\ pc = [script |-> "04", fn |-> "h2h", at |-> "done"]
    /\ files' = [f \in DOMAIN files \cup {"04"} |->
                    IF f = "04" THEN ToCsv(df_sorted) ELSE files[f]]
    /\ pc' = At("main", "done")
    /\ UNCHANGED <<df, df_sorted, i, acc, loc, lists>>

Next04 == Main04Read \/ Main04CallH2H \/ Main04Write \/ NextPass

----------------------------------------------------------------------------
(* 05_breakpoints_and_tiebreak_computer.py: main. *)

Main05Read ==
    /\ pc = [script |-> "05", fn |-> "main", at |-> "start"]
    /\ "04" \in DOMAIN files
    /\ df' = ReadCsv(files["04"])
    /\ pc' = At("bptb", "sort")
    /\ UNCHANGED <<files, df_sorted, i, acc, loc, lists>>

Main05Write ==
    /\ pc = [script |-> "05", fn |-> "bptb", at |-> "done"]
    /\ files' = [f \in DOMAIN files \cup {"05"} |->
                    IF f = "05" THEN ToCsv(df_sorted) ELSE files[f]]
    /\ pc' = At("main", "done")
    /\ UNCHANGED <<df, df_sorted, i, acc, loc, lists>>

Next05 == Main05Read \/ Main05Write \/ NextPass

----------------------------------------------------------------------------
(* 06_features_adder.py: main. *)

Main06Read ==
    /\ pc = [script |-> "06", fn |-> "main", at |-> "start"]
    /\ "05" \in DOMAIN files
    /\ df' = ReadCsv(files["05"])
    /\ pc' = At("surface", "sort")
    /\ UNCHANGED <<files, df_sorted, i, acc, loc, lists>>

\* df = compute_recent_form(df), and the two calls after it.
Main06CallNext ==
    /\ pc.script = "06"
    /\ pc.at = "done"
    /\ pc.fn \in {"surface", "form", "fatigue"}
    /\ df' = df_sorted
    /\ pc' = At(CASE pc.fn = "surface" -> "form"
                  [] pc.fn = "form" -> "fatigue"
                  [] pc.fn = "fatigue" -> "serve", "sort")
    /\ UNCHANGED <<files, df_sorted, i, acc, loc, lists>>

\* df = compute_serve_stats(df); df = compute_additional_features(df)
Main06Additional ==
    /\ pc = [script |-> "06", fn |-> "serve", at |-> "done"]
    /\ CanAdd(df_sorted)
    /\ df' = compute_additional_features(df_sorted)
    /\ pc' = At("additional", "done")
    /\ UNCHANGED <<files, df_sorted, i, acc, loc, lists>>

Main06Write ==
    /\ pc = [script |-> "06", fn |-> "additional", at |-> "done"]
    /\ files' = [f \in DOMAIN files \cup {"06"} |->
                    IF f = "06" THEN ToCsv(df) ELSE files[f]]
    /\ pc' = At("main", "done")
    /\ UNCHANGED <<df, df_sorted, i, acc, loc, lists>>

\* compute_additional_features raises KeyError on a column the data has not,
\* AttributeError on .str of a tournament_name column that is all null.
Main06AdditionalRaises ==
    /\ pc = [script |-> "06", fn |-> "serve", at |-> "done"]
    /\ ~CanAdd(df_sorted)
    /\ pc' = At("additional", "failed")
    /\ UNCHANGED <<files, df, df_sorted, i, acc, loc, lists>>

Next06 == Main06Read \/ Main06CallNext \/ Main06Additional \/ Main06Write \/ NextPass

----------------------------------------------------------------------------
(* The pipeline: the scripts run one after the other, each a process of    *)
(* its own that starts from the file the one before it wrote.              *)

RunNextScript ==
    /\ \/ pc.fn = "main" /\ pc.at = "done"
       \/ pc.at = "failed"
    /\ pc.script \in {"04", "05"}
    /\ pc' = [script |-> IF pc.script = "04" THEN "05" ELSE "06",
              fn |-> "main", at |-> "start"]
    /\ df' = <<>>
    /\ df_sorted' = <<>>
    /\ i' = 0
    /\ acc' = <<>>
    /\ loc' = <<>>
    /\ lists' = <<>>
    /\ UNCHANGED files

Next ==
    \/ Main04Read \/ Main04CallH2H \/ Main04Write
    \/ Main05Read \/ Main05Write
    \/ Main06Read \/ Main06CallNext \/ Main06Additional \/ Main06Write
    \/ RunNextScript
    \/ NextPass

\* The pipeline is run once more on the same input file.
RunAgain ==
    /\ pc = [script |-> "06", fn |-> "main", at |-> "done"]
    /\ pc' = [script |-> "04", fn |-> "main", at |-> "start"]
    /\ df' = <<>>
    /\ df_sorted' = <<>>
    /\ i' = 0
    /\ acc' = <<>>
    /\ loc' = <<>>
    /\ lists' = <<>>
    /\ UNCHANGED files

NextAgain == Next \/ RunAgain

\* The pipeline with the ways a script ends without its output.
NextFail ==
    \/ Next
    \/ MissingInput \/ Main04MissingCols
    \/ SortRaises \/ LoopRaises \/ Main06AdditionalRaises

----------------------------------------------------------------------------
(* Inputs. *)

SeqsUpTo(S, n) == UNION {[1..k -> S] : k \in 0..n}

\* A row of 03_atp_matches.csv: the columns the passes read.  The year is the
\* date's, as 02_merge.py derives it.
Raw(w, l, d, m) ==
    [tournament_date |-> d, match_number |-> m, tournament_year |-> d \div 10000,
     winner_player_name |-> w, loser_player_name |-> l,
     final_score |-> NaN,
     winner_break_points_saved |-> NaN, winner_break_points_faced |-> NaN,
     loser_break_points_saved |-> NaN, loser_break_points_faced |-> NaN,
     court_surface |-> "Hard",
     tournament_name |-> Some(<<"D", "o", "h", "a">>),
     tournament_round |-> Some("R32"),
     winner_country_code |-> "AUS", loser_country_code |-> "FRA",
     winner_atp_rank |-> NaN, loser_atp_rank |-> NaN,
     winner_atp_points |-> NaN, loser_atp_points |-> NaN,
     winner_height_cm |-> NaN, loser_height_cm |-> NaN,
     winner_age_years |-> NaN, loser_age_years |-> NaN,
     winner_tournament_seed |-> NaN, loser_tournament_seed |-> NaN,
     winner_serve |-> <<NaN, NaN, NaN, NaN, NaN>>,
     loser_serve |-> <<NaN, NaN, NaN, NaN, NaN>>]

InitRun(script, file, inputs) ==
    /\ pc = [script |-> script, fn |-> "main", at |-> "start"]
    /\ files \in {(file :> rows) : rows \in inputs}
    /\ df = <<>>
    /\ df_sorted = <<>>
    /\ i = 0
    /\ acc = <<>>
    /\ loc = <<>>
    /\ lists = <<>>

WinPairs == {<<"A", "B">>, <<"B", "A">>, <<"A", "C">>, <<"C", "B">>}
WinKeys == {<<20200106, 1>>, <<20200106, 2>>, <<20210104, 1>>}

PoolWin == {Raw(p[1], p[2], k[1], k[2]) : p \in WinPairs, k \in WinKeys}

InitWin == InitRun("04", "03", SeqsUpTo(PoolWin, MaxRecs))

SpecWin == InitWin /\ [][Next04]_vars

\* Scores.
Set(a, b) == <<a, "-", b>>
Tb(n) == <<"(", n, ")">>
Sp == <<" ">>

ScorePool ==
    {NaN, Some(<<>>),
     Some(Set("6", "4") \o Sp \o Set("7", "6") \o Tb("3") \o Sp \o Set("6", "2")),
     Some(Set("3", "6") \o Sp \o Set("6", "7") \o Tb("5") \o Sp \o Set("2", "6")),
     Some(Set("7", "6") \o Tb("5") \o Sp \o Set("6", "7") \o Tb("3") \o Sp \o Set("7", "6")),
     Some(Sp \o Set("6", "7") \o <<"(", "1", "0", ")">> \o Sp \o Sp \o Set("6", "3")),
     Some(Set("6", "3") \o Sp \o Set("6", "4")),
     Some(<<"1">> \o Set("7", "6") \o Sp \o Set("6", "1")),
     Some(Set("7", "6") \o <<"5">>),
     Some(Set("6", "7") \o <<"x">>),
     Some(Set("6", "7") \o <<"-", "6">>),
     Some(Set("7", "6") \o <<"(">> \o Set("7", "5") \o <<")">>),
     Some(<<"W", "/", "O">>),
     Some(Set("6", "4") \o Sp \o <<"R", "E", "T">>)}

TbPairs == {<<"A", "B">>, <<"B", "A">>}

PoolTb ==
    {[Raw(p[1], p[2], 20200106, 1) EXCEPT
         !.final_score = sc,
         !.winner_break_points_saved = Some(2), !.winner_break_points_faced = Some(3),
         !.loser_break_points_saved = NaN, !.loser_break_points_faced = Some(4)] :
     p \in TbPairs, sc \in ScorePool}

InitTb == InitRun("05", "04", SeqsUpTo(PoolTb, MaxRecsTb))

SpecTb == InitTb /\ [][Next05]_vars

\* The whole pipeline on one input file: two players, two weeks either side
\* of a new year, and two kinds of row, one with every statistic present and
\* one with most of the optional ones missing.
AllPairs == {<<"A", "B">>, <<"B", "A">>}
AllDates == {20201228, 20210104}

Full(w, l, d) ==
    [Raw(w, l, d, 1) EXCEPT
        !.final_score =
            Some(Set("6", "4") \o Sp \o Set("7", "6") \o Tb("3") \o Sp \o Set("6", "2")),
        !.winner_break_points_saved = Some(2), !.winner_break_points_faced = Some(3),
        !.loser_break_points_saved = Some(1), !.loser_break_points_faced = Some(4),
        !.court_surface = "Clay",
        !.tournament_name = Some(<<"P", "A", "R", "I", "S">>),
        !.tournament_round = Some("F"),
        !.winner_country_code = IF w = "A" THEN "FRA" ELSE "ESP",
        !.loser_country_code = IF l = "A" THEN "FRA" ELSE "ESP",
        !.winner_atp_rank = Some(IF w = "A" THEN 8 ELSE 3),
        !.loser_atp_rank = Some(IF l = "A" THEN 8 ELSE 3),
        !.winner_atp_points = Some(IF w = "A" THEN 2500 ELSE 6000),
        !.loser_atp_points = Some(IF l = "A" THEN 2500 ELSE 6000),
        !.winner_height_cm = Some(IF w = "A" THEN 185 ELSE 191),
        !.loser_height_cm = Some(IF l = "A" THEN 185 ELSE 191),
        !.winner_age_years = Some(IF w = "A" THEN 24 ELSE 31),
        !.loser_age_years = Some(IF l = "A" THEN 24 ELSE 31),
        !.winner_tournament_seed = IF w = "A" THEN NaN ELSE Some(2),
        !.loser_tournament_seed = IF l = "A" THEN NaN ELSE Some(2),
        !.winner_serve = <<Some(40), Some(64), Some(7), Some(2), Some(12)>>,
        !.loser_serve = <<Some(35), Some(70), Some(3), Some(4), Some(11)>>]

Sparse(w, l, d) ==
    [Raw(w, l, d, 1) EXCEPT
        !.final_score =
            Some(Set("3", "6") \o Sp \o Set("6", "7") \o Tb("5") \o Sp \o Set("2", "6")),
        !.court_surface = "Carpet",
        !.winner_break_points_saved = Some(2),
        !.loser_break_points_faced = Some(5),
        !.winner_serve = <<NaN, Some(50), Some(5), NaN, NaN>>,
        !.loser_serve = <<Some(30), Some(60), Some(4), Some(1), Some(9)>>]

PoolAll == {Full(p[1], p[2], d) : p \in AllPairs, d \in AllDates}
               \cup {Sparse(p[1], p[2], d) : p \in AllPairs, d \in AllDates}

Init == InitRun("04", "03", SeqsUpTo(PoolAll, MaxRecsAll))

Spec == Init /\ [][Next]_vars

SpecAgain == Init /\ [][NextAgain]_vars

\* The pipeline on input files that are whole, damaged, or not there.
FailPairs == {<<"A", "B">>, <<"B", "A">>}
PoolFail == {Full(p[1], p[2], d) : p \in FailPairs, d \in AllDates}

Damages == {"none", "tournament_year", "match_number", "final_score",
            "tournament_name", "date"}

\* 13 is no month.
BadDate == 20201301

\* The rows without a column, or with a last row whose date is none.
Damaged(rows, damage) ==
    CASE damage = "none" -> rows
      [] damage = "date" ->
             [k \in 1..Len(rows) |->
                 IF k = Len(rows) THEN [rows[k] EXCEPT !.tournament_date = BadDate]
                 ELSE rows[k]]
      [] OTHER -> [k \in 1..Len(rows) |->
                      [f \in DOMAIN rows[k] \ {damage} |-> rows[k][f]]]

InitFail ==
    /\ pc = [script |-> "04", fn |-> "main", at |-> "start"]
    /\ files \in {<<>>} \cup
                 {("03" :> Damaged(rows, damage)) :
                     rows \in SeqsUpTo(PoolFail, MaxRecsFail), damage \in Damages}
    /\ df = <<>>
    /\ df_sorted = <<>>
    /\ i = 0
    /\ acc = <<>>
    /\ loc = <<>>
    /\ lists = <<>>

SpecFail == InitFail /\ [][NextFail]_vars

\* compute_recent_form called on its own: two players and one week after the
\* other, long enough for both windows to fill.
FormRow(w, l, k) == Raw(w, l, 20200106 + k, 1)

InitFormCall ==
    /\ pc = [script |-> "06", fn |-> "form", at |-> "sort"]
    /\ files = <<>>
    /\ df \in {ReadCsv([k \in 1..MaxForm |-> IF k \in won THEN FormRow("A", "B", k)
                                                         ELSE FormRow("B", "A", k)]) :
               won \in SUBSET (1..MaxForm)}
    /\ df_sorted = <<>>
    /\ i = 0
    /\ acc = <<>>
    /\ loc = <<>>
    /\ lists = <<>>

SpecForm == InitFormCall /\ [][NextPass]_vars

\* compute_fatigue_and_experience called on its own.
FatiguePairs == {<<"A", "B">>, <<"B", "A">>, <<"A", "C">>, <<"C", "B">>}
FatigueKeys == {<<20200106, 1>>, <<20200106, 2>>, <<20200113, 1>>, <<20200302, 1>>}

PoolFatigue == {Raw(p[1], p[2], k[1], k[2]) : p \in FatiguePairs, k \in FatigueKeys}

InitFatigueCall ==
    /\ pc = [script |-> "06", fn |-> "fatigue", at |-> "sort"]
    /\ files = <<>>
    /\ df \in {ReadCsv(rows) : rows \in SeqsUpTo(PoolFatigue, MaxRecsFatigue)}
    /\ df_sorted = <<>>
    /\ i = 0
    /\ acc = <<>>
    /\ loc = <<>>
    /\ lists = <<>>

SpecFatigue == InitFatigueCall /\ [][NextPass]_vars

\* compute_surface_specific_stats called on its own: two players, the four
\* surfaces of the data, two matches of one day.
SurfacePairs == {<<"A", "B">>, <<"B", "A">>}
Surfaces == {"Clay", "Grass", "Hard", "Carpet"}
SurfaceKeys == {<<20200106, 1>>, <<20200106, 2>>}

PoolSurface ==
    {[Raw(p[1], p[2], k[1], k[2]) EXCEPT !.court_surface = s] :
     p \in SurfacePairs, s \in Surfaces, k \in SurfaceKeys}

InitSurfaceCall ==
    /\ pc = [script |-> "06", fn |-> "surface", at |-> "sort"]
    /\ files = <<>>
    /\ df \in {ReadCsv(rows) : rows \in SeqsUpTo(PoolSurface, MaxRecsSurface)}
    /\ df_sorted = <<>>
    /\ i = 0
    /\ acc = <<>>
    /\ loc = <<>>
    /\ lists = <<>>

SpecSurface == InitSurfaceCall /\ [][NextPass]_vars

\* compute_additional_features called on its own, on rows with the columns
\* of every pass.  Two sets of snapshot columns: those of a first match, and
\* those of a third match of a pair on clay in one year, the winner having
\* won the two before.
SnapFirst ==
    [yearly |-> [winner |-> [wins_ytd |-> 0, losses_ytd |-> 0, win_pct_ytd |-> 0],
                 loser |-> [wins_ytd |-> 0, losses_ytd |-> 0, win_pct_ytd |-> 0]],
     h2h |-> [winner |-> [h2h_wins |-> 0, h2h_losses |-> 0],
              loser |-> [h2h_wins |-> 0, h2h_losses |-> 0]],
     surface |-> [winner |-> SurfaceBefore([k \in {<<"A", "Clay">>, <<"A", "Grass">>,
                                                   <<"A", "Hard">>} |-> <<0, 0>>], "A"),
                  loser |-> SurfaceBefore([k \in {<<"A", "Clay">>, <<"A", "Grass">>,
                                                  <<"A", "Hard">>} |-> <<0, 0>>], "A")],
     form |-> [winner |-> [last5_wins |-> 0, last10_wins |-> 0],
               loser |-> [last5_wins |-> 0, last10_wins |-> 0]],
     fatigue |-> [winner |-> [days_since_last_match |-> NaN, career_matches |-> 0],
                  loser |-> [days_since_last_match |-> NaN, career_matches |-> 0]]]

SnapThird ==
    [yearly |-> [winner |-> [wins_ytd |-> 2, losses_ytd |-> 0, win_pct_ytd |-> 10000],
                 loser |-> [wins_ytd |-> 0, losses_ytd |-> 2, win_pct_ytd |-> 0]],
     h2h |-> [winner |-> [h2h_wins |-> 2, h2h_losses |-> 0],
              loser |-> [h2h_wins |-> 0, h2h_losses |-> 2]],
     surface |-> [winner |-> SurfaceBefore([k \in {<<"A", "Clay">>, <<"A", "Grass">>,
                                                   <<"A", "Hard">>} |->
                                               IF k[2] = "Clay" THEN <<2, 0>> ELSE <<0, 0>>], "A"),
                  loser |-> SurfaceBefore([k \in {<<"A", "Clay">>, <<"A", "Grass">>,
                                                  <<"A", "Hard">>} |->
                                              IF k[2] = "Clay" THEN <<0, 2>> ELSE <<0, 0>>], "A")],
     form |-> [winner |-> [last5_wins |-> 2, last10_wins |-> 2],
               loser |-> [last5_wins |-> 0, last10_wins |-> 0]],
     fatigue |-> [winner |-> [days_since_last_match |-> Some(7), career_matches |-> 2],
                  loser |-> [days_since_last_match |-> Some(7), career_matches |-> 2]]]

Ranks == {NaN, Some(3), Some(8)}

Rounds == {NaN, Some("F"), Some("SF"), Some("QF"), Some("R16"), Some("R32"), Some("R64"),
           Some("R128"), Some("RR"), Some("BR"), Some("ER"), Some("Q1"), Some("f")}

Names == {NaN, Some(<<"P", "A", "R", "I", "S">>), Some(<<"D", "o", "h", "a">>)}

\* The rows: the third match with every pair of ranks, with every round code
\* and with every tournament name, and the first match off clay.
PoolDerived ==
    {[Full("A", "B", 20210104) @@ SnapThird EXCEPT !.winner_atp_rank = w, !.loser_atp_rank = l] :
         w \in Ranks, l \in Ranks}
    \cup {[Full("A", "B", 20210104) @@ SnapThird EXCEPT !.tournament_round = r] : r \in Rounds}
    \cup {[Full("B", "A", 20210104) @@ SnapThird EXCEPT !.tournament_name = n] : n \in Names}
    \cup {[Sparse("B", "A", 20201228) @@ SnapFirst EXCEPT !.court_surface = s, !.tournament_name = n] :
             s \in {"Carpet", "Hard"}, n \in {NaN, Some(<<"D", "o", "h", "a">>)}}

InitDerivedCall ==
    /\ pc = [script |-> "06", fn |-> "serve", at |-> "done"]
    /\ files = <<>>
    /\ df = <<>>
    /\ df_sorted \in {ReadCsv(rows) : rows \in SeqsUpTo(PoolDerived, MaxRecsDerived)}
    /\ i = 0
    /\ acc = <<>>
    /\ loc = <<>>
    /\ lists = <<>>

NextDerived == Main06Additional \/ Main06AdditionalRaises \/ Main06Write

SpecDerived == InitDerivedCall /\ [][NextDerived]_vars

\* The whole pipeline with a third player: a row of A and B is read while C
\* has cells of C's own.
FramePairs == {<<"A", "B">>, <<"B", "A">>, <<"A", "C">>}

PoolFrame ==
    {Full(p[1], p[2], d) : p \in FramePairs, d \in AllDates}
        \cup {Sparse("C", "A", 20210104)}

InitFrame == InitRun("04", "03", SeqsUpTo(PoolFrame, MaxRecsFrame))

SpecFrame == InitFrame /\ [][Next]_vars

----------------------------------------------------------------------------
(* What the claims read. *)

\* Row k of df_sorted has the columns of pass fn: appended to the lists of the
\* running pass, or already a column.
HasCol(fn, k) ==
    /\ k \in 1..Len(df_sorted)
    /\ \/ fn \in DOMAIN df_sorted[k]
       \/ pc.fn = fn /\ pc.at \in {"loop", "update"} /\ k <= Len(lists)

Col(fn, k) == IF fn \in DOMAIN df_sorted[k] THEN df_sorted[k][fn] ELSE lists[k]

Sorted == pc.fn \in Passes /\ pc.at # "sort"

Winner(k) == df_sorted[k].winner_player_name
Loser(k) == df_sorted[k].loser_player_name
Year(k) == df_sorted[k].tournament_year
Plays(p, k) == p = Winner(k) \/ p = Loser(k)
SideOf(p, k) == IF p = Winner(k) THEN "winner" ELSE "loser"

SameKey(r, s) == ~KeyLess(r, s) /\ ~KeyLess(s, r)

----------------------------------------------------------------------------
(* C3: the pass's order is by tournament date ascending, then match number  *)
(* ascending; rows of equal (date, match number) keep the order in which    *)
(* the input was read; the sorted copy holds exactly the rows of the input. *)
(* The order is therefore fixed by the input alone.                         *)
SequencerOrder ==
    Sorted =>
        /\ Len(df_sorted) = Len(df)
        /\ \A r \in 1..Len(df) : \E k \in 1..Len(df_sorted) :
              \A f \in DOMAIN df[r] : f \in DOMAIN df_sorted[k] /\ df_sorted[k][f] = df[r][f]
        /\ \A j, k \in 1..Len(df_sorted) :
              j < k =>
                 \/ KeyLess(df_sorted[j], df_sorted[k])
                 \/ /\ SameKey(df_sorted[j], df_sorted[k])
                    /\ df_sorted[j].idx < df_sorted[k].idx

\* An input read out of order, with two rows of one key, after the sort.
SequencerOrderWitness ==
    /\ Sorted
    /\ pc.fn = "yearly"
    /\ \E j, k \in 1..Len(df) : j < k /\ KeyLess(df[k], df[j])
    /\ \E j, k \in 1..Len(df) : j < k /\ SameKey(df[j], df[k])
                                 /\ df[j].winner_player_name # df[k].winner_player_name

----------------------------------------------------------------------------
(* C4: the year-to-date wins and losses emitted for a player at a row are   *)
(* the numbers of that player's matches won and lost in the row's year      *)
(* among the rows before it in sort order, whichever side the player was    *)
(* on; the percentage is that of the two counts.  A beats B, A beats C, A   *)
(* loses to B in one year gives A 2 wins, 0 losses, 100.0 at the third row. *)
WonBefore(p, k) ==
    Cardinality({j \in 1..(k - 1) : Year(j) = Year(k) /\ Winner(j) = p})

LostBefore(p, k) ==
    Cardinality({j \in 1..(k - 1) : Year(j) = Year(k) /\ Loser(j) = p})

PlayedBefore(p, k) ==
    Cardinality({j \in 1..(k - 1) : Year(j) = Year(k) /\ Plays(p, j)})

YtdExample ==
    /\ Len(df_sorted) = 3
    /\ Year(1) = Year(3) /\ Year(2) = Year(3)
    /\ Winner(1) = "A" /\ Loser(1) = "B"
    /\ Winner(2) = "A" /\ Loser(2) = "C"
    /\ Winner(3) = "B" /\ Loser(3) = "A"
    /\ HasCol("yearly", 3)

YtdCounts ==
    /\ \A k \in 1..Len(df_sorted) : \A p \in {Winner(k), Loser(k)} :
          HasCol("yearly", k) =>
              LET c == Col("yearly", k)[SideOf(p, k)]
              IN  /\ c.wins_ytd = WonBefore(p, k)
                  /\ c.losses_ytd = LostBefore(p, k)
                  /\ c.wins_ytd + c.losses_ytd = PlayedBefore(p, k)
                  /\ c.win_pct_ytd = Pct(WonBefore(p, k), PlayedBefore(p, k))
    /\ YtdExample =>
          Col("yearly", 3).loser = [wins_ytd |-> 2, losses_ytd |-> 0, win_pct_ytd |-> 10000]

\* The example's third row has its year-to-date columns.
YtdCountsWitness == YtdExample

----------------------------------------------------------------------------
(* C5: at every row between two players, the winner's head-to-head wins    *)
(* plus losses as emitted equal the number of earlier rows between the same *)
(* two players, whoever won them and whichever name sorts first.            *)
MetBefore(k) ==
    Cardinality({j \in 1..(k - 1) : {Winner(j), Loser(j)} = {Winner(k), Loser(k)}})

H2HSymmetry ==
    \A k \in 1..Len(df_sorted) :
        HasCol("h2h", k) =>
            Col("h2h", k).winner.h2h_wins + Col("h2h", k).winner.h2h_losses = MetBefore(k)

\* A third meeting, won by the name that sorts second, after one win each.
H2HSymmetryWitness ==
    /\ HasCol("h2h", 3)
    /\ Winner(1) = "A" /\ Loser(1) = "B"
    /\ Winner(2) = "B" /\ Loser(2) = "A"
    /\ Winner(3) = "B" /\ Loser(3) = "A"
    /\ Col("h2h", 3).winner.h2h_wins = 1
    /\ Col("h2h", 3).winner.h2h_losses = 1

----------------------------------------------------------------------------
(* Tiebreaks: the set tokens of a score and their stripped forms. *)

SetTokens(score) ==
    IF ~notna(score) \/ score = Some(<<>>) THEN <<>> ELSE Split(Strip(score[1]))

IsExact(tok, pat) == ReSub(tok) = pat
Holds(tok, pat) == Contains(ReSub(tok), pat)

NumExact(score, pat) ==
    Cardinality({k \in 1..Len(SetTokens(score)) : IsExact(SetTokens(score)[k], pat)})

NumHolding76(score) ==
    Cardinality({k \in 1..Len(SetTokens(score)) : Holds(SetTokens(score)[k], Str76)})

NumHolding67Only(score) ==
    Cardinality({k \in 1..Len(SetTokens(score)) :
                    /\ Holds(SetTokens(score)[k], Str67)
                    /\ ~Holds(SetTokens(score)[k], Str76)})

AtUpdate(fn) == pc.fn = fn /\ pc.at = "update"

ScoreNow == df_sorted[i + 1].final_score

Score367 == Some(Set("3", "6") \o Sp \o Set("6", "7") \o Tb("5") \o Sp \o Set("2", "6"))

----------------------------------------------------------------------------
----------------------------------------------------------------------------
(* C7: a set token counts as a tiebreak set if and only if its stripped     *)
(* form is exactly "7-6" or exactly "6-7"; tiebreaks_played, for either     *)
(* player, is the number of such tokens.                                    *)
TiebreakSetsAreExactTokens ==
    AtUpdate("bptb") =>
        /\ loc.winner_tb_played_match = NumExact(ScoreNow, Str76) + NumExact(ScoreNow, Str67)
        /\ loc.loser_tb_played_match = NumExact(ScoreNow, Str76) + NumExact(ScoreNow, Str67)

----------------------------------------------------------------------------
(* The rows before row k, folded by pass fn from the empty dictionaries. *)

RECURSIVE AccBefore(_, _)
AccBefore(fn, k) ==
    IF k <= 1 THEN InitAcc(fn)
    ELSE LET a == AccBefore(fn, k - 1)
             r == ReadRow(fn, a, df_sorted[k - 1])
         IN  CommitRow(fn, r.acc, df_sorted[k - 1], r.loc)

\* The columns a row's snapshot gives player p.
OfPlayer(emit, row, p) ==
    IF p = row.winner_player_name THEN emit.winner ELSE emit.loser

\* The rows the input could hold at the place of row r: the same date, match
\* number and players, any outcome, score, surface and raw stats.
VariantsOf(r) ==
    {v \in PoolAll :
        /\ SameKey(v, r)
        /\ {v.winner_player_name, v.loser_player_name}
              = {r.winner_player_name, r.loser_player_name}}

\* What the pass would emit for the row in hand once its own update is in.
WithOwnUpdate ==
    ReadRow(pc.fn, CommitRow(pc.fn, acc, df_sorted[i + 1], loc), df_sorted[i + 1]).emit

(* C1: in every pass, from the append of a row's snapshot to the pass's     *)
(* return, the snapshot columns of the row are those the rows before it in  *)
(* the sort order give, player by player, whatever the row itself holds     *)
(* (outcome, score, surface, raw stats) and whatever follows it.            *)
NoLookahead ==
    \A k \in 1..Len(df_sorted) :
        (pc.fn \in Passes /\ HasCol(pc.fn, k)) =>
            LET before == AccBefore(pc.fn, k)
            IN  \A v \in VariantsOf(df_sorted[k]) :
                    LET e == ReadRow(pc.fn, before, v).emit
                    IN  \A p \in {Winner(k), Loser(k)} :
                            OfPlayer(Col(pc.fn, k), df_sorted[k], p) = OfPlayer(e, v, p)

\* The serve pass has emitted the snapshot of a later row whose own raw stats
\* would have changed it, and the input could have held other rows in its place.
NoLookaheadWitness ==
    /\ pc = [script |-> "06", fn |-> "serve", at |-> "update"]
    /\ i >= 1
    /\ lists[i + 1] # WithOwnUpdate
    /\ lists[i + 1].winner.first_serve_pct_career > 0
    /\ Cardinality(VariantsOf(df_sorted[i + 1])) > 1

----------------------------------------------------------------------------
\* The row with the two players exchanged.
Swap(row) ==
    [row EXCEPT !.winner_player_name = row.loser_player_name,
                !.loser_player_name = row.winner_player_name]

(* C2: in the step that reads a row, both sides' snapshots are appended     *)
(* from the dictionaries as they stand before the row, neither side seeing  *)
(* the other's update, and no entry of a dictionary changes; the update     *)
(* comes in a later step, with both snapshots already in the lists.         *)
ReadBeforeWrite ==
    [][/\ (pc.fn \in Passes /\ pc.at = "loop" /\ pc'.at = "update") =>
             LET e == lists'[Len(lists')]
                 sw == ReadRow(pc.fn, acc, Swap(df_sorted[i + 1])).emit
             IN  /\ lists' = Append(lists, e)
                 /\ Len(lists') = i + 1
                 /\ e.loser = sw.winner
                 /\ e.winner = sw.loser
                 /\ \A d \in DOMAIN acc : \A key \in DOMAIN acc[d] : acc'[d][key] = acc[d][key]
       /\ (pc.fn \in Passes /\ pc.at = "update") =>
             /\ Len(lists) = i + 1
             /\ lists' = lists
             /\ i' = i + 1]_vars

\* The head-to-head pass between its read and its update, on a pair that has
\* met: the loser's snapshot would differ had the winner's update come first.
ReadBeforeWriteWitness ==
    /\ pc = [script |-> "04", fn |-> "h2h", at |-> "update"]
    /\ i >= 1
    /\ lists[i + 1].loser.h2h_wins > 0
    /\ lists[i + 1].loser # WithOwnUpdate.loser

----------------------------------------------------------------------------
\* The rows before row k that player p played.
Prior(p, k) == {j \in 1..(k - 1) : Plays(p, j)}

\* The wins among the most recent m of them.
WinsInLast(p, k, m) ==
    Cardinality({j \in Prior(p, k) :
                    /\ Winner(j) = p
                    /\ Cardinality({h \in Prior(p, k) : h > j}) < m})

\* The outcomes of p in rows 1..k, oldest first.
RECURSIVE Outcomes(_, _)
Outcomes(p, k) ==
    IF k = 0 THEN <<>>
    ELSE IF Winner(k) = p THEN Append(Outcomes(p, k - 1), 1)
    ELSE IF Loser(k) = p THEN Append(Outcomes(p, k - 1), 0)
    ELSE Outcomes(p, k - 1)

(* C8: last5_wins and last10_wins of a player at a row are the wins among   *)
(* the player's most recent min(5, n) and min(10, n) matches before the     *)
(* row, and a player's result list is the player's outcomes in the rows     *)
(* done, one entry a row, in order.                                         *)
RecentForm ==
    /\ \A k \in 1..Len(df_sorted) :
          HasCol("form", k) =>
              \A p \in {Winner(k), Loser(k)} :
                  /\ Col("form", k)[SideOf(p, k)].last5_wins = WinsInLast(p, k, 5)
                  /\ Col("form", k)[SideOf(p, k)].last10_wins = WinsInLast(p, k, 10)
    /\ (pc.fn = "form" /\ pc.at # "sort") =>
          \A p \in DOMAIN acc.recent_results : acc.recent_results[p] = Outcomes(p, i)

\* A player with more than ten matches behind, a win among them older than
\* the ten, and the two windows apart.
RecentFormWitness ==
    /\ pc.fn = "form"
    /\ pc.at = "done"
    /\ \E k \in 1..Len(df_sorted) :
          /\ Cardinality(Prior(Winner(k), k)) > 10
          /\ df_sorted[k].form.winner.last10_wins
                < Cardinality({j \in Prior(Winner(k), k) : Winner(j) = Winner(k)})
          /\ df_sorted[k].form.winner.last5_wins < df_sorted[k].form.winner.last10_wins

(* C9: in every emitted row and on both sides, 0 <= last5_wins <= 5,        *)
(* 0 <= last10_wins <= 10 and last5_wins <= last10_wins.                    *)
RecentFormBounds ==
    \A k \in 1..Len(df_sorted) :
        HasCol("form", k) =>
            \A side \in {"winner", "loser"} :
                LET e == Col("form", k)[side]
                IN  /\ 0 <= e.last5_wins /\ e.last5_wins <= 5
                    /\ 0 <= e.last10_wins /\ e.last10_wins <= 10
                    /\ e.last5_wins <= e.last10_wins

\* A player with eleven wins behind: both windows are full of wins.
RecentFormBoundsWitness ==
    /\ pc.fn = "form"
    /\ HasCol("form", MaxForm)
    /\ Cardinality({j \in Prior(Winner(MaxForm), MaxForm) : Winner(j) = Winner(MaxForm)}) > 10
    /\ Col("form", MaxForm).winner.last5_wins = 5
    /\ Col("form", MaxForm).winner.last10_wins = 10
    /\ Col("form", MaxForm).loser.last10_wins = 0

----------------------------------------------------------------------------
(* C10: days_since_last_match of a player at a row is missing if and only   *)
(* if no row before it in the sort order has the player, as winner or as    *)
(* loser; on every later row of the player it is a number.                  *)
FatigueSentinel ==
    \A k \in 1..Len(df_sorted) :
        HasCol("fatigue", k) =>
            \A p \in {Winner(k), Loser(k)} :
                (Col("fatigue", k)[SideOf(p, k)].days_since_last_match = NaN)
                    <=> Prior(p, k) = {}

\* A player first seen as the loser of a later row, next to one who played
\* earlier the same day: a missing value and a 0 in one row.
FatigueSentinelWitness ==
    /\ pc.fn = "fatigue"
    /\ pc.at = "done"
    /\ \E k \in 2..Len(df_sorted) :
          /\ df_sorted[k].fatigue.loser.days_since_last_match = NaN
          /\ df_sorted[k].fatigue.winner.days_since_last_match = Some(0)

----------------------------------------------------------------------------
\* The last row before row k that player p played.
LastPrior(p, k) == CHOOSE j \in Prior(p, k) : \A h \in Prior(p, k) : h <= j

\* The input was not in the pass's order.
OutOfOrder == \E j, k \in 1..Len(df) : j < k /\ KeyLess(df[k], df[j])

----------------------------------------------------------------------------
(* C12: career_matches of a player at row k is the number of rows before k  *)
(* in the sort order that the player played, as winner or as loser; the     *)
(* counter of each of the two players of a row grows by one with the row.   *)
CareerMatches ==
    /\ \A k \in 1..Len(df_sorted) :
          HasCol("fatigue", k) =>
              \A p \in {Winner(k), Loser(k)} :
                  Col("fatigue", k)[SideOf(p, k)].career_matches = Cardinality(Prior(p, k))
    /\ (pc.fn = "fatigue" /\ pc.at = "loop") =>
          \A p \in DOMAIN acc.total_matches :
              acc.total_matches[p] = Cardinality(Prior(p, i + 1))

\* A player with two rows behind, one won and one lost, meets a newcomer.
CareerMatchesWitness ==
    /\ pc.fn = "fatigue"
    /\ pc.at = "done"
    /\ Len(df_sorted) = 3
    /\ df_sorted[3].fatigue.winner.career_matches = 2
    /\ df_sorted[3].fatigue.loser.career_matches = 0
    /\ Loser(1) = Winner(3)
    /\ Winner(2) = Winner(3)

----------------------------------------------------------------------------
\* A pass enters its loop with empty dictionaries and empty lists.
FreshStart ==
    (pc.fn \in Passes /\ pc.at = "loop" /\ i = 0) =>
        /\ acc = InitAcc(pc.fn)
        /\ lists = <<>>

\* A file that is there stays, with the content it has.
OutputKept ==
    \A f \in DOMAIN files : f \in DOMAIN files' /\ files'[f] = files[f]

(* C13: every pass starts from empty dictionaries and lists, whatever the   *)
(* pass or the run before it left, and a second run of the pipeline on the  *)
(* same input writes each output file as the first run wrote it.            *)
Idempotence == []FreshStart /\ [][OutputKept]_vars

\* The second run has written the files of scripts 04 and 05 over those of
\* the first, which also left the file of script 06; three rows, the last
\* with a head-to-head record behind it.
IdempotenceWitness ==
    /\ pc = [script |-> "05", fn |-> "main", at |-> "done"]
    /\ "06" \in DOMAIN files
    /\ Len(files["05"]) = 3
    /\ files["05"][3].h2h.winner.h2h_wins + files["05"][3].h2h.winner.h2h_losses = 2
    /\ files["06"][3].fatigue.winner.career_matches = 2

----------------------------------------------------------------------------
\* The rows before row k of rows, folded by pass fn.
RECURSIVE AccBeforeIn(_, _, _)
AccBeforeIn(fn, rows, k) ==
    IF k <= 1 THEN InitAcc(fn)
    ELSE LET a == AccBeforeIn(fn, rows, k - 1)
             r == ReadRow(fn, a, rows[k - 1])
         IN  CommitRow(fn, r.acc, rows[k - 1], r.loc)

\* The orders the rows of the input could have come in.
Orders(n) == {o \in [1..n -> 1..n] : \A j, k \in 1..n : j # k => o[j] # o[k]}

\* The columns of the input file: all of a row but its index and what the
\* passes added.
RawOf(row) == [f \in DOMAIN row \ ({"idx"} \cup Passes) |-> row[f]]

DistinctKeys(rows) == \A j, k \in 1..Len(rows) : j # k => ~SameKey(rows[j], rows[k])

(* C14: an input out of order is sorted, not refused; when no two rows have *)
(* one (date, match number), any order of the same rows gives every row the *)
(* snapshot columns it has here, and the rows behind a row's snapshot all   *)
(* have a smaller key.                                                      *)
OutOfOrderInput ==
    (Sorted /\ DistinctKeys(df)) =>
        /\ Len(df_sorted) = Len(df)
        /\ \A j, k \in 1..Len(df_sorted) : j < k => KeyLess(df_sorted[j], df_sorted[k])
        /\ \A o \in Orders(Len(df)) :
              LET other == SortValues([k \in 1..Len(df) |-> df[o[k]]])
              IN  \A k \in 1..Len(df_sorted) :
                      /\ RawOf(other[k]) = RawOf(df_sorted[k])
                      /\ HasCol(pc.fn, k) =>
                            Col(pc.fn, k)
                                = ReadRow(pc.fn, AccBeforeIn(pc.fn, other, k), other[k]).emit

\* Three rows of three keys read latest first, and the head-to-head pass
\* done: the latest row has the two earlier meetings in its snapshot.
OutOfOrderInputWitness ==
    /\ pc.fn = "h2h"
    /\ pc.at = "done"
    /\ Len(df) = 3
    /\ DistinctKeys(df)
    /\ df_sorted[3].idx = 0 /\ df_sorted[2].idx = 1 /\ df_sorted[1].idx = 2
    /\ df_sorted[3].h2h.winner.h2h_wins = 1
    /\ df_sorted[3].h2h.winner.h2h_losses = 1

----------------------------------------------------------------------------
\* The serve counters of player p before row k.
ServeCountersBefore(p, k) == Get(AccBefore("serve", k).serve_stats, p, ServeZero)

(* C15: every percentage or rate of a snapshot is 0 when its denominator    *)
(* in the snapshot is 0: the win percentage of the year, the breakpoint and *)
(* tiebreak percentages of the year and the career, the win percentages on  *)
(* clay, grass and hard, the first-serve percentage, the aces and the       *)
(* double faults per service game.                                          *)
ZeroDenominator ==
    \A k \in 1..Len(df_sorted) : \A side \in {"winner", "loser"} :
        LET p == df_sorted[k][IF side = "winner" THEN "winner_player_name"
                                                 ELSE "loser_player_name"]
        IN  /\ (pc.fn = "yearly" /\ HasCol("yearly", k)) =>
                  LET e == Col("yearly", k)[side]
                  IN  e.wins_ytd + e.losses_ytd = 0 => e.win_pct_ytd = 0
            /\ (pc.fn = "bptb" /\ HasCol("bptb", k)) =>
                  LET e == Col("bptb", k)[side]
                  IN  /\ e.bp_faced_ytd = 0 => e.bp_pct_ytd = 0
                      /\ e.bp_faced_career = 0 => e.bp_pct_career = 0
                      /\ e.tb_played_ytd = 0 => e.tb_pct_ytd = 0
                      /\ e.tb_played_career = 0 => e.tb_pct_career = 0
            /\ (pc.fn = "surface" /\ HasCol("surface", k)) =>
                  LET e == Col("surface", k)[side]
                  IN  /\ e.clay_wins + e.clay_losses = 0 => e.clay_win_pct = 0
                      /\ e.grass_wins + e.grass_losses = 0 => e.grass_win_pct = 0
                      /\ e.hard_wins + e.hard_losses = 0 => e.hard_win_pct = 0
            /\ (pc.fn = "serve" /\ HasCol("serve", k)) =>
                  LET e == Col("serve", k)[side]
                      st == ServeCountersBefore(p, k)
                  IN  /\ st[2] = 0 => e.first_serve_pct_career = 0
                      /\ st[5] = 0 => e.aces_per_service_game = 0
                      /\ st[5] = 0 => e.df_per_service_game = 0

\* The serve pass at a player with aces counted and no service game: the
\* rate is 0, next to a player whose rates are not.
ZeroDenominatorWitness ==
    /\ pc = [script |-> "06", fn |-> "serve", at |-> "update"]
    /\ i = 2
    /\ acc.serve_stats[Winner(3)][3] > 0
    /\ acc.serve_stats[Winner(3)][5] = 0
    /\ lists[3].winner.aces_per_service_game = 0
    /\ lists[3].loser.aces_per_service_game > 0

----------------------------------------------------------------------------
\* What a raw counter adds: its value, nothing when it is null.
Adds(v) == IF notna(v) THEN v[1] ELSE 0

(* C16: in the update of a row, a breakpoint or serve counter of a player   *)
(* grows by the row's raw value, by nothing when the raw value is null,     *)
(* each counter by itself; the row has its snapshot in the lists all the    *)
(* same and the loop goes on.                                               *)
MissingStat ==
    [][(pc.fn \in {"bptb", "serve"} /\ pc.at = "update") =>
          LET row == df_sorted[i + 1]
              w == row.winner_player_name
              l == row.loser_player_name
              y == row.tournament_year
          IN  /\ Len(lists) = i + 1
              /\ i' = i + 1
              /\ pc'.at = "loop"
              /\ pc.fn = "bptb" =>
                    /\ acc'.career_bp_won[w]
                          = acc.career_bp_won[w] + Adds(row.winner_break_points_saved)
                    /\ acc'.career_bp_faced[w]
                          = acc.career_bp_faced[w] + Adds(row.winner_break_points_faced)
                    /\ acc'.career_bp_won[l]
                          = acc.career_bp_won[l] + Adds(row.loser_break_points_saved)
                    /\ acc'.career_bp_faced[l]
                          = acc.career_bp_faced[l] + Adds(row.loser_break_points_faced)
                    /\ acc'.yearly_bp_won[<<w, y>>]
                          = acc.yearly_bp_won[<<w, y>>] + Adds(row.winner_break_points_saved)
                    /\ acc'.yearly_bp_faced[<<w, y>>]
                          = acc.yearly_bp_faced[<<w, y>>] + Adds(row.winner_break_points_faced)
                    /\ acc'.yearly_bp_won[<<l, y>>]
                          = acc.yearly_bp_won[<<l, y>>] + Adds(row.loser_break_points_saved)
                    /\ acc'.yearly_bp_faced[<<l, y>>]
                          = acc.yearly_bp_faced[<<l, y>>] + Adds(row.loser_break_points_faced)
              /\ pc.fn = "serve" =>
                    \A c \in 1..5 :
                        /\ acc'.serve_stats[w][c]
                              = acc.serve_stats[w][c] + Adds(row.winner_serve[c])
                        /\ acc'.serve_stats[l][c]
                              = acc.serve_stats[l][c] + Adds(row.loser_serve[c])]_vars

\* The serve pass after a second row whose winner has no first serves in and
\* some serve points: the first counter is as the first row left it, the
\* second has grown.
MissingStatWitness ==
    /\ pc = [script |-> "06", fn |-> "serve", at |-> "loop"]
    /\ i = 2
    /\ df_sorted[2].winner_serve[1] = NaN
    /\ df_sorted[2].winner_serve[2] = Some(50)
    /\ acc.serve_stats[Winner(2)][1] > 0
    /\ acc.serve_stats[Winner(2)][2] > 50

----------------------------------------------------------------------------
\* The score of the row in hand has no token whose stripped form is "7-6" or
\* "6-7": it is null, empty, or other text.
NoTiebreakToken == NumExact(ScoreNow, Str76) + NumExact(ScoreNow, Str67) = 0

(* C17: for a row whose score is null, empty, or has no token with stripped *)
(* form "7-6" or "6-7", no tiebreak is counted as played or won for either  *)
(* player, and the update leaves the tiebreak counters as they were.        *)
MalformedScoreCountsNothing ==
    [][(AtUpdate("bptb") /\ NoTiebreakToken) =>
          /\ loc.winner_tb_played_match = 0 /\ loc.winner_tb_won_match = 0
          /\ loc.loser_tb_played_match = 0 /\ loc.loser_tb_won_match = 0
          /\ \A d \in {"career_tb_won", "career_tb_played", "yearly_tb_won", "yearly_tb_played"} :
                \A key \in DOMAIN acc[d] : acc'[d][key] = acc[d][key]
          /\ pc'.at = "loop"]_vars

----------------------------------------------------------------------------
\* The rows before row k folded by pass fn with reads that create no key:
\* the dictionaries hold what the updates alone put there.
RECURSIVE AccUnread(_, _)
AccUnread(fn, k) ==
    IF k <= 1 THEN InitAcc(fn)
    ELSE LET a == AccUnread(fn, k - 1)
         IN  CommitRow(fn, a, df_sorted[k - 1], ReadRow(fn, a, df_sorted[k - 1]).loc)

\* The rows before row k that p played in the year of row k.
PriorInYear(p, k) == {j \in Prior(p, k) : Year(j) = Year(k)}

\* The rows before row k that p played on surface s.
PriorOn(p, k, s) == {j \in Prior(p, k) : df_sorted[j].court_surface = s}

ZeroBpTb(e, ytd, career) ==
    /\ ytd => /\ e.bp_won_ytd = 0 /\ e.bp_faced_ytd = 0 /\ e.bp_pct_ytd = 0
              /\ e.tb_won_ytd = 0 /\ e.tb_played_ytd = 0 /\ e.tb_pct_ytd = 0
    /\ career => /\ e.bp_won_career = 0 /\ e.bp_faced_career = 0 /\ e.bp_pct_career = 0
                 /\ e.tb_won_career = 0 /\ e.tb_played_career = 0 /\ e.tb_pct_career = 0

\* The snapshot e of player p at row k is the zero state of pass fn wherever
\* the player, the player's year, surface or pair has no row before k.
ZeroWhereUnseen(fn, e, p, k) ==
    CASE fn = "yearly" ->
             PriorInYear(p, k) = {} =>
                 e.wins_ytd = 0 /\ e.losses_ytd = 0 /\ e.win_pct_ytd = 0
      [] fn = "h2h" ->
             MetBefore(k) = 0 => e.h2h_wins = 0 /\ e.h2h_losses = 0
      [] fn = "bptb" -> ZeroBpTb(e, PriorInYear(p, k) = {}, Prior(p, k) = {})
      [] fn = "surface" ->
             /\ PriorOn(p, k, "Clay") = {} =>
                   e.clay_wins = 0 /\ e.clay_losses = 0 /\ e.clay_win_pct = 0
             /\ PriorOn(p, k, "Grass") = {} =>
                   e.grass_wins = 0 /\ e.grass_losses = 0 /\ e.grass_win_pct = 0
             /\ PriorOn(p, k, "Hard") = {} =>
                   e.hard_wins = 0 /\ e.hard_losses = 0 /\ e.hard_win_pct = 0
      [] fn = "form" -> Prior(p, k) = {} => e.last5_wins = 0 /\ e.last10_wins = 0
      [] fn = "fatigue" -> Prior(p, k) = {} => e.career_matches = 0
      [] fn = "serve" ->
             Prior(p, k) = {} =>
                 /\ e.first_serve_pct_career = 0
                 /\ e.aces_per_service_game = 0
                 /\ e.df_per_service_game = 0

(* C18: a row is read and its snapshot appended whether or not its players, *)
(* their year, surface or pair were seen before; what was not seen reads as *)
(* the zero state, and the keys a read creates change no snapshot: every    *)
(* snapshot is the one the updates of the rows before it give by            *)
(* themselves.                                                              *)
UnknownEntity ==
    \A k \in 1..Len(df_sorted) :
        (pc.fn \in Passes /\ HasCol(pc.fn, k)) =>
            /\ \A side \in {"winner", "loser"} :
                  ZeroWhereUnseen(pc.fn, Col(pc.fn, k)[side],
                                  IF side = "winner" THEN Winner(k) ELSE Loser(k), k)
            /\ Col(pc.fn, k) = ReadRow(pc.fn, AccUnread(pc.fn, k), df_sorted[k]).emit

\* The surface pass done on three rows: a first on carpet, a second on clay
\* by players seen but not on clay, whose read created their clay, grass and
\* hard records, and a third on clay that has the second in its snapshot.
UnknownEntityWitness ==
    /\ pc = [script |-> "06", fn |-> "surface", at |-> "done"]
    /\ Len(df_sorted) = 3
    /\ df_sorted[1].court_surface = "Carpet"
    /\ df_sorted[2].court_surface = "Clay"
    /\ df_sorted[3].court_surface = "Clay"
    /\ df_sorted[2].surface.winner.clay_wins + df_sorted[2].surface.winner.clay_losses = 0
    /\ df_sorted[3].surface.winner.clay_wins + df_sorted[3].surface.winner.clay_losses = 1
    /\ df_sorted[3].surface.winner.grass_win_pct = 0

----------------------------------------------------------------------------
Scripts == {"04", "05", "06"}

\* The passes of a script, in the order it calls them.
PassesOf(script) ==
    CASE script = "04" -> {"yearly", "h2h"}
      [] script = "05" -> {"bptb"}
      [] script = "06" -> {"surface", "form", "fatigue", "serve"}

\* The fields of the input a script cannot do without.
Needs(script) ==
    SortColumns
        \cup UNION {ColumnsRead(fn) : fn \in PassesOf(script)}
        \cup (IF script = "04" THEN required_cols ELSE {})
        \cup (IF script = "06" THEN AdditionalColumns ELSE {})

LacksField(script, rows) ==
    IF Len(rows) = 0 THEN FALSE ELSE ~(Needs(script) \subseteq DOMAIN rows[1])

(* C19: a script whose input lacks a field it requires, or has no records  *)
(* at all, writes no output file.                                           *)
CatastrophicInputAborts ==
    \A s \in Scripts :
        (InputOf(s) \in DOMAIN files
            /\ (Len(files[InputOf(s)]) = 0 \/ LacksField(s, files[InputOf(s)])))
        => OutputOf(s) \notin DOMAIN files

\* The part of C19 on fields alone.
MissingFieldAborts ==
    \A s \in Scripts :
        (InputOf(s) \in DOMAIN files /\ LacksField(s, files[InputOf(s)]))
        => OutputOf(s) \notin DOMAIN files

----------------------------------------------------------------------------
(* C20: an output file, once there, has every row of the script's input     *)
(* with the columns of every pass of the script (and the derived columns    *)
(* in the case of script 06); a script that ended on an exception or an     *)
(* early return has written no output file.                                 *)
NoPartialOutput ==
    /\ \A s \in Scripts :
          OutputOf(s) \in DOMAIN files =>
              /\ Len(files[OutputOf(s)]) = Len(files[InputOf(s)])
              /\ \A k \in 1..Len(files[OutputOf(s)]) :
                    /\ PassesOf(s) \subseteq DOMAIN files[OutputOf(s)][k]
                    /\ s = "06" => "derived" \in DOMAIN files[OutputOf(s)][k]
    /\ pc.at = "failed" => OutputOf(pc.script) \notin DOMAIN files

\* Script 06 has ended in its third pass on the second row, whose date is
\* none, with the first row's snapshot in the lists: scripts 04 and 05 have
\* written their files, script 06 has written nothing.
NoPartialOutputWitness ==
    /\ pc = [script |-> "06", fn |-> "fatigue", at |-> "failed"]
    /\ i = 1
    /\ Len(lists) = 1
    /\ ~ValidDate(df_sorted[2].tournament_date)
    /\ {"surface", "form"} \subseteq DOMAIN df_sorted[1]
    /\ DOMAIN files = {"03", "04", "05"}

----------------------------------------------------------------------------
\* The columns a script adds to its input.
AddedBy(script) == PassesOf(script) \cup (IF script = "06" THEN {"derived"} ELSE {})

\* Row r with the columns cols more and every column of its own as it was.
Augments(out, r, cols) ==
    /\ DOMAIN out = DOMAIN r \cup cols
    /\ \A f \in DOMAIN r : out[f] = r[f]

(* C21: an output file has one row for every row of the script's input and  *)
(* no other: the rows of the input in some order, each with every column it *)
(* had, unchanged, and the columns the script adds; and a pass returns the   *)
(* rows it was given, one for one by their index, each with the pass's      *)
(* columns more.                                                            *)
OutputShape ==
    /\ \A s \in Scripts :
          OutputOf(s) \in DOMAIN files =>
              LET in == files[InputOf(s)]
                  out == files[OutputOf(s)]
              IN  /\ Len(out) = Len(in)
                  /\ \E o \in Orders(Len(in)) :
                        \A k \in 1..Len(in) : Augments(out[k], in[o[k]], AddedBy(s))
    /\ (pc.fn \in Passes /\ pc.at = "done") =>
          /\ Len(df_sorted) = Len(df)
          /\ \A r \in 1..Len(df) :
                Cardinality({k \in 1..Len(df_sorted) : df_sorted[k].idx = df[r].idx}) = 1
          /\ \A r \in 1..Len(df), k \in 1..Len(df_sorted) :
                df_sorted[k].idx = df[r].idx => Augments(df_sorted[k], df[r], {pc.fn})

\* Script 06 has written its file for an input of three rows read latest
\* first, two of them with one (date, match number) and one of them twice.
OutputShapeWitness ==
    /\ pc = [script |-> "06", fn |-> "main", at |-> "done"]
    /\ Len(files["03"]) = 3
    /\ files["03"][1] = files["03"][2]
    /\ KeyLess(files["03"][3], files["03"][1])
    /\ Len(files["06"]) = 3
    /\ files["06"][1].winner_player_name = files["03"][3].winner_player_name

----------------------------------------------------------------------------
\* The rows before row k that p won, and lost, on surface s.
WonOn(p, k, s) == Cardinality({j \in PriorOn(p, k, s) : Winner(j) = p})
LostOn(p, k, s) == Cardinality({j \in PriorOn(p, k, s) : Loser(j) = p})

\* The surface record of p on s as the dictionary has it.
Cell(a, p, s) == Get(a.surface_stats, <<p, s>>, <<0, 0>>)

\* The snapshot of every row appended so far has the counts of the rows before it.
SurfaceCounts ==
    \A k \in 1..Len(df_sorted) :
        HasCol("surface", k) =>
            \A side \in {"winner", "loser"} :
                LET p == IF side = "winner" THEN Winner(k) ELSE Loser(k)
                    e == Col("surface", k)[side]
                IN  /\ e.clay_wins = WonOn(p, k, "Clay")
                    /\ e.clay_losses = LostOn(p, k, "Clay")
                    /\ e.grass_wins = WonOn(p, k, "Grass")
                    /\ e.grass_losses = LostOn(p, k, "Grass")
                    /\ e.hard_wins = WonOn(p, k, "Hard")
                    /\ e.hard_losses = LostOn(p, k, "Hard")

\* The update of a row on surface S: one win more in the winner's S record,
\* one loss more in the loser's, every other number of every record as it was.
SurfaceUpdate ==
    (pc.fn = "surface" /\ pc.at = "update") =>
        LET w == Winner(i + 1)
            l == Loser(i + 1)
            S == df_sorted[i + 1].court_surface
        IN  /\ Cell(acc', w, S) = <<Cell(acc, w, S)[1] + 1, Cell(acc, w, S)[2]>>
            /\ Cell(acc', l, S) = <<Cell(acc, l, S)[1], Cell(acc, l, S)[2] + 1>>
            /\ \A p \in {w, l} : \A s \in Surfaces \ {S} : Cell(acc', p, s) = Cell(acc, p, s)
            /\ \A key \in DOMAIN acc.surface_stats :
                  key \notin {<<w, S>>, <<l, S>>} =>
                      /\ key \in DOMAIN acc'.surface_stats
                      /\ acc'.surface_stats[key] = acc.surface_stats[key]

(* C22: at every row, the wins and losses emitted for a player on clay, on  *)
(* grass and on hard court are the numbers of the player's matches won and  *)
(* lost on that surface among the rows before it; the update of a row on    *)
(* surface S adds one win to the S record of its winner and one loss to the *)
(* S record of its loser and leaves their records on every other surface,   *)
(* and the other half of the S records, as they were.                       *)
SurfaceRecord == []SurfaceCounts /\ [][SurfaceUpdate]_vars

\* Three rows, on clay, on hard court and on clay: the third row's winner
\* lost the first and won the second, and has the one loss on clay and the
\* one win on hard court in the snapshot, with nothing on grass.
SurfaceRecordWitness ==
    /\ pc.fn = "surface"
    /\ pc.at = "done"
    /\ Len(df_sorted) = 3
    /\ df_sorted[1].court_surface = "Clay"
    /\ df_sorted[2].court_surface = "Hard"
    /\ df_sorted[3].court_surface = "Clay"
    /\ Loser(1) = Winner(3) /\ Winner(2) = Winner(3)
    /\ df_sorted[3].surface.winner.clay_wins = 0
    /\ df_sorted[3].surface.winner.clay_losses = 1
    /\ df_sorted[3].surface.winner.hard_wins = 1
    /\ df_sorted[3].surface.winner.grass_wins + df_sorted[3].surface.winner.grass_losses = 0

----------------------------------------------------------------------------
\* The win percentage of p on surface s over the rows before row k.
WinPctOn(p, k, s) == Pct(WonOn(p, k, s), Cardinality(PriorOn(p, k, s)))

AfterAdditional == pc = [script |-> "06", fn |-> "additional", at |-> "done"]

(* C23: for every row, on clay, grass, hard court and carpet alike,         *)
(* surface_win_pct_diff is the winner's win percentage on the row's surface *)
(* over the rows before it minus the loser's on the same surface.           *)
CurrentSurfaceDiff ==
    AfterAdditional =>
        \A k \in 1..Len(df) :
            df[k].derived.surface_win_pct_diff
                = WinPctOn(Winner(k), k, df_sorted[k].court_surface)
                    - WinPctOn(Loser(k), k, df_sorted[k].court_surface)

\* The part of C23 on clay, grass and hard court.
CurrentSurfaceDiffOffCarpet ==
    AfterAdditional =>
        \A k \in 1..Len(df) :
            df_sorted[k].court_surface \in {"Clay", "Grass", "Hard"} =>
                df[k].derived.surface_win_pct_diff
                    = WinPctOn(Winner(k), k, df_sorted[k].court_surface)
                        - WinPctOn(Loser(k), k, df_sorted[k].court_surface)

----------------------------------------------------------------------------
(* C24: is_upset is 1 when both ranks are there and the winner's is the    *)
(* greater number, and 0 otherwise: on equal ranks, on a winner of smaller  *)
(* rank number, and when either rank is null; with both ranks there it is 1 *)
(* exactly when rank_diff, the loser's rank minus the winner's, is negative. *)
UpsetFlag ==
    AfterAdditional =>
        \A k \in 1..Len(df) :
            LET w == df[k].winner_atp_rank
                l == df[k].loser_atp_rank
                d == df[k].derived
            IN  /\ d.is_upset \in {0, 1}
                /\ d.is_upset = 1 <=> (notna(w) /\ notna(l) /\ w[1] > l[1])
                /\ (notna(w) /\ notna(l)) =>
                      /\ d.rank_diff = Some(l[1] - w[1])
                      /\ d.is_upset = 1 <=> d.rank_diff[1] < 0
                /\ (~notna(w) \/ ~notna(l)) => d.is_upset = 0 /\ d.rank_diff = NaN

\* Two rows: one won by the player of rank 8 over the player of rank 3,
\* flagged, and one whose winner has rank 8 and whose loser has none, not
\* flagged.
UpsetFlagWitness ==
    /\ AfterAdditional
    /\ Len(df) = 2
    /\ df[1].winner_atp_rank = Some(8) /\ df[1].loser_atp_rank = Some(3)
    /\ df[1].derived.is_upset = 1
    /\ df[1].derived.rank_diff = Some(-5)
    /\ df[2].winner_atp_rank = Some(8) /\ df[2].loser_atp_rank = NaN
    /\ df[2].derived.is_upset = 0

----------------------------------------------------------------------------
\* The table of the round codes.
RoundTable ==
    [c \in {"F", "SF", "QF", "R16", "R32", "R64", "R128", "RR", "BR"} |->
        CASE c = "F" -> 7 [] c = "SF" -> 6 [] c = "QF" -> 5 [] c = "R16" -> 4
          [] c = "R32" -> 3 [] c = "R64" -> 2 [] c = "R128" -> 1 [] c = "RR" -> 3
          [] c = "BR" -> 1]

(* C25: round_importance of a row is the table's value for the row's round  *)
(* code, F 7, SF 6, QF 5, R16 4, R32 3, R64 2, R128 1, RR 3, BR 1, and 1    *)
(* for a code outside the table and for a null one; it is always in 1..7.   *)
RoundImportanceTable ==
    AfterAdditional =>
        \A k \in 1..Len(df) :
            LET r == df[k].tournament_round
                v == df[k].derived.round_importance
            IN  /\ v \in 1..7
                /\ IF notna(r) /\ r[1] \in DOMAIN RoundTable
                   THEN v = RoundTable[r[1]]
                   ELSE v = 1

\* A final next to a row without a round code: 7 and 1.
RoundImportanceTableWitness ==
    /\ AfterAdditional
    /\ Len(df) = 2
    /\ df[1].tournament_round = Some("F") /\ df[1].derived.round_importance = 7
    /\ df[2].tournament_round = NaN /\ df[2].derived.round_importance = 1

----------------------------------------------------------------------------
\* The ways to take m of n rows, in any order.
Picks(n) ==
    UNION {{o \in [1..m -> 1..n] : \A j, k \in 1..m : j # k => o[j] # o[k]} : m \in 0..n}

Picked(rows, o) == [j \in 1..Len(o) |-> rows[o[j]]]

(* C26: the derived columns of a row are a function of the row's own        *)
(* columns: compute_additional_features, given any of the rows it was       *)
(* given, in any order, gives each of them the derived columns it has here. *)
DerivedPurity ==
    AfterAdditional =>
        \A o \in Picks(Len(df_sorted)) :
            /\ CanAdd(Picked(df_sorted, o))
            /\ \A j \in 1..Len(o) :
                  compute_additional_features(Picked(df_sorted, o))[j].derived
                      = df[o[j]].derived

\* The part of C26 on the rows taken together with a row that has a
\* tournament name, or on none at all.
DerivedPurityAmongNamed ==
    AfterAdditional =>
        \A o \in Picks(Len(df_sorted)) :
            CanAdd(Picked(df_sorted, o)) =>
                \A j \in 1..Len(o) :
                    compute_additional_features(Picked(df_sorted, o))[j].derived
                        = df[o[j]].derived

----------------------------------------------------------------------------
(* A ring buffer of capacity 10: ten cells, the cell the next outcome goes  *)
(* to, and the number of cells in use.                                      *)
RingCapacity == 10

RingEmpty == [buf |-> [c \in 0..(RingCapacity - 1) |-> 0], head |-> 0, count |-> 0]

RingPush(rb, x) ==
    [buf |-> [rb.buf EXCEPT ![rb.head] = x],
     head |-> (rb.head + 1) % RingCapacity,
     count |-> IF rb.count < RingCapacity THEN rb.count + 1 ELSE RingCapacity]

RECURSIVE RingSumBack(_, _)
RingSumBack(rb, m) ==
    IF m = 0 THEN 0
    ELSE rb.buf[(rb.head + RingCapacity - m) % RingCapacity] + RingSumBack(rb, m - 1)

\* The sum of the n most recent outcomes in the buffer.
RingSumLast(rb, n) == RingSumBack(rb, IF rb.count < n THEN rb.count ELSE n)

\* The buffer after the outcomes of a list, oldest first.
RECURSIVE RingOf(_, _)
RingOf(l, k) == IF k = 0 THEN RingEmpty ELSE RingPush(RingOf(l, k - 1), l[k])

(* C27: a ring buffer of capacity 10 in the place of a player's result list *)
(* gives the same last5_wins and last10_wins: at every row the two columns  *)
(* emitted for a player are the sums of the 5 and the 10 most recent        *)
(* outcomes in the buffer fed with the player's outcomes before the row,    *)
(* and the sums over the list as it stands are those over the buffer.       *)
RingBufferEquivalence ==
    /\ \A k \in 1..Len(df_sorted) :
          HasCol("form", k) =>
              \A p \in {Winner(k), Loser(k)} :
                  LET rb == RingOf(Outcomes(p, k - 1), Len(Outcomes(p, k - 1)))
                  IN  /\ Col("form", k)[SideOf(p, k)].last5_wins = RingSumLast(rb, 5)
                      /\ Col("form", k)[SideOf(p, k)].last10_wins = RingSumLast(rb, 10)
    /\ (pc.fn = "form" /\ pc.at # "sort") =>
          \A p \in DOMAIN acc.recent_results :
              LET l == acc.recent_results[p]
              IN  /\ SumLast(l, 5) = RingSumLast(RingOf(l, Len(l)), 5)
                  /\ SumLast(l, 10) = RingSumLast(RingOf(l, Len(l)), 10)

\* A player at the twelfth row, with eleven outcomes behind: the buffer has
\* dropped the oldest, a win, and the list still holds it.
RingBufferEquivalenceWitness ==
    /\ pc.fn = "form"
    /\ pc.at = "update"
    /\ i = 11
    /\ Len(acc.recent_results["A"]) = 11
    /\ acc.recent_results["A"][1] = 1
    /\ lists[12][SideOf("A", 12)].last10_wins = SumFrom(acc.recent_results["A"], 1) - 1
    /\ lists[12][SideOf("A", 12)].last5_wins < lists[12][SideOf("A", 12)].last10_wins

----------------------------------------------------------------------------
\* What row j gave player p in breakpoints and tiebreaks.
BpTbOfRow(p, j) ==
    LET row == df_sorted[j]
        won == p = Winner(j)
        tb == count_tiebreaks_in_score(row.final_score, won)
    IN  [bp_won |-> IF won THEN Adds(row.winner_break_points_saved)
                           ELSE Adds(row.loser_break_points_saved),
         bp_faced |-> IF won THEN Adds(row.winner_break_points_faced)
                             ELSE Adds(row.loser_break_points_faced),
         tb_won |-> tb.won,
         tb_played |-> tb.played]

\* The total of a counter over a set of rows.
RECURSIVE TotalOver(_, _, _)
TotalOver(p, rows, c) ==
    IF rows = {} THEN 0
    ELSE LET j == CHOOSE x \in rows : TRUE
         IN  BpTbOfRow(p, j)[c] + TotalOver(p, rows \ {j}, c)

Players == {PlayerNames[k] : k \in 1..Len(PlayerNames)}

\* The keys of the year-to-date dictionaries are (player, year), those of
\* the career dictionaries players.
ScopeOfKeys ==
    /\ (pc.fn = "yearly" /\ pc.at # "sort") =>
          \A d \in DOMAIN acc : \A key \in DOMAIN acc[d] :
              key \in Players \X {df_sorted[k].tournament_year : k \in 1..Len(df_sorted)}
    /\ (pc.fn = "bptb" /\ pc.at # "sort") =>
          \A d \in DOMAIN acc : \A key \in DOMAIN acc[d] :
              IF d \in {"career_bp_won", "career_bp_faced", "career_tb_won", "career_tb_played"}
              THEN key \in Players
              ELSE key \in Players \X {df_sorted[k].tournament_year : k \in 1..Len(df_sorted)}

(* C28: the year-to-date dictionaries are keyed by (player, year), the      *)
(* career ones by player; at a player's first row of a year the player's    *)
(* year-to-date wins, losses, breakpoints and tiebreaks are 0, while the    *)
(* career columns are the totals of all the player's rows before, and the   *)
(* year-to-date ones those of the rows before in the row's year; each       *)
(* year-to-date breakpoint or tiebreak column is at most its career one.    *)
YtdCareerScope ==
    /\ ScopeOfKeys
    /\ \A k \in 1..Len(df_sorted) : \A side \in {"winner", "loser"} :
          LET p == IF side = "winner" THEN Winner(k) ELSE Loser(k)
          IN  /\ (pc.fn \in {"yearly", "bptb"} /\ HasCol("yearly", k)) =>
                    LET e == Col("yearly", k)[side]
                    IN  PriorInYear(p, k) = {} =>
                            e.wins_ytd = 0 /\ e.losses_ytd = 0 /\ e.win_pct_ytd = 0
              /\ (pc.fn = "bptb" /\ HasCol("bptb", k)) =>
                    LET e == Col("bptb", k)[side]
                    IN  /\ PriorInYear(p, k) = {} =>
                              /\ e.bp_won_ytd = 0 /\ e.bp_faced_ytd = 0 /\ e.bp_pct_ytd = 0
                              /\ e.tb_won_ytd = 0 /\ e.tb_played_ytd = 0 /\ e.tb_pct_ytd = 0
                        /\ e.bp_won_career = TotalOver(p, Prior(p, k), "bp_won")
                        /\ e.bp_faced_career = TotalOver(p, Prior(p, k), "bp_faced")
                        /\ e.tb_won_career = TotalOver(p, Prior(p, k), "tb_won")
                        /\ e.tb_played_career = TotalOver(p, Prior(p, k), "tb_played")
                        /\ e.bp_won_ytd = TotalOver(p, PriorInYear(p, k), "bp_won")
                        /\ e.bp_faced_ytd = TotalOver(p, PriorInYear(p, k), "bp_faced")
                        /\ e.tb_won_ytd = TotalOver(p, PriorInYear(p, k), "tb_won")
                        /\ e.tb_played_ytd = TotalOver(p, PriorInYear(p, k), "tb_played")
                        /\ e.bp_won_ytd <= e.bp_won_career
                        /\ e.bp_faced_ytd <= e.bp_faced_career
                        /\ e.tb_won_ytd <= e.tb_won_career
                        /\ e.tb_played_ytd <= e.tb_played_career

\* One row of 2020 and two of 2021: at the first row of 2021 the winner has
\* no wins, breakpoints or tiebreaks of the year and has those of 2020 in
\* the career columns; at the second the year's are there, below the career's.
YtdCareerScopeWitness ==
    /\ pc = [script |-> "05", fn |-> "bptb", at |-> "done"]
    /\ Len(df_sorted) = 3
    /\ Year(1) = 2020 /\ Year(2) = 2021 /\ Year(3) = 2021
    /\ df_sorted[2].yearly.winner.wins_ytd + df_sorted[2].yearly.winner.losses_ytd = 0
    /\ df_sorted[2].bptb.winner.bp_faced_ytd = 0
    /\ df_sorted[2].bptb.winner.tb_played_ytd = 0
    /\ df_sorted[2].bptb.winner.bp_faced_career > 0
    /\ df_sorted[2].bptb.winner.tb_played_career > 0
    /\ df_sorted[3].bptb.winner.bp_faced_ytd > 0
    /\ df_sorted[3].bptb.winner.bp_faced_ytd < df_sorted[3].bptb.winner.bp_faced_career

----------------------------------------------------------------------------
\* Every token of the score that the code takes for a tiebreak set is "7-6"
\* or "6-7" once its bracket is stripped.
TiebreakTokensExact(score) ==
    NumHolding76(score) + NumHolding67Only(score)
        = NumExact(score, Str76) + NumExact(score, Str67)

----------------------------------------------------------------------------
\* The dictionaries of the passes whose keys are (player, year).
YearlyDicts ==
    {"yearly_wins", "yearly_losses",
     "yearly_bp_won", "yearly_bp_faced", "yearly_tb_won", "yearly_tb_played"}

\* The key of dictionary d is one of the row's winner or loser (of the
\* row's pair, for the head-to-head records).
IsOf(d, key, row) ==
    LET both == {row.winner_player_name, row.loser_player_name}
    IN  CASE d \in YearlyDicts \cup {"surface_stats"} -> key[1] \in both
          [] d = "h2h_records" -> {key[1], key[2]} = both
          [] OTHER -> key \in both

\* ... and of the row's year, or surface, as well.
IsCellOf(d, key, row) ==
    /\ IsOf(d, key, row)
    /\ CASE d \in YearlyDicts -> key[2] = row.tournament_year
         [] d = "surface_stats" -> key[2] = row.court_surface
         [] OTHER -> TRUE

\* What a cell that is not there reads as.
ZeroOf(d) ==
    CASE d \in {"h2h_records", "surface_stats"} -> <<0, 0>>
      [] d = "recent_results" -> <<>>
      [] d = "serve_stats" -> ServeZero
      [] OTHER -> 0

\* No counter of the cell is smaller than it was; a result list has grown at
\* its end or not at all.
NotLess(d, old, new) ==
    CASE d \in {"h2h_records", "surface_stats", "serve_stats"} ->
             \A c \in 1..Len(old) : new[c] >= old[c]
      [] d = "recent_results" -> Len(new) >= Len(old) /\ SubSeq(new, 1, Len(old)) = old
      [] OTHER -> new >= old

\* A step of the loop on row R, its read or its update.
FrameOfStep ==
    (pc.fn \in Passes /\ pc.at \in {"loop", "update"} /\ pc'.at \in {"loop", "update"}) =>
        LET R == df_sorted[i + 1]
        IN  \A d \in DOMAIN acc :
                /\ d \in DOMAIN acc'
                /\ \A key \in DOMAIN acc[d] :
                      /\ key \in DOMAIN acc'[d]
                      /\ NotLess(d, acc[d][key], acc'[d][key])
                /\ \A key \in DOMAIN acc'[d] :
                      /\ key \notin DOMAIN acc[d] => IsOf(d, key, R)
                      /\ ~IsCellOf(d, key, R) =>
                            Get(acc'[d], key, ZeroOf(d)) = Get(acc[d], key, ZeroOf(d))

\* The end of the loop leaves the dictionaries as they are.
FrameOfReturn ==
    (pc.fn \in Passes /\ pc.at = "loop" /\ pc'.at = "done") => acc' = acc

(* C30: a step of a pass on row R changes only cells keyed by R's winner or *)
(* loser, with R's year, surface or pair where the key has one; the cells   *)
(* of every other player, year, surface and pair are as they were, no cell  *)
(* of a dictionary is deleted or set back during the pass, and no counter   *)
(* gets smaller.                                                            *)
AccumulatorFrame == [][FrameOfStep /\ FrameOfReturn]_vars

\* The breakpoint pass has done a row of A and C in 2020 and a row of A and B
\* in 2021: C's career cell and A's cell of 2020 are as the first row left them.
AccumulatorFrameWitness ==
    /\ pc = [script |-> "05", fn |-> "bptb", at |-> "loop"]
    /\ i = 2
    /\ {Winner(1), Loser(1)} = {"A", "C"} /\ Year(1) = 2020
    /\ {Winner(2), Loser(2)} = {"A", "B"} /\ Year(2) = 2021
    /\ acc.career_bp_faced["C"] > 0
    /\ acc.yearly_bp_faced[<<"A", 2020>>] > 0
    /\ acc.yearly_bp_faced[<<"A", 2021>>] > 0
    /\ acc.career_bp_faced["A"] = acc.yearly_bp_faced[<<"A", 2020>>] + acc.yearly_bp_faced[<<"A", 2021>>]

----------------------------------------------------------------------------
(* The dictionaries of lists as Python keeps them.  A defaultdict maps a key
   to a reference; the list the reference names lives in the heap, and an
   update through one reference is seen through every reference to the same
   list.  The passes above keep a dictionary by value; here compute_h2h_stats,
   compute_surface_specific_stats and compute_serve_stats run on references. *)

RefPasses == {"h2h", "surface", "serve"}

DictName(fn) ==
    CASE fn = "h2h" -> "h2h_records"
      [] fn = "surface" -> "surface_stats"
      [] fn = "serve" -> "serve_stats"

\* The default factory: lambda: [0, 0], lambda: [0, 0, 0, 0, 0].
RefZero(fn) == IF fn = "serve" THEN ServeZero ELSE <<0, 0>>

\* defaultdict(...): no key, no list.
RefInit == [dict |-> <<>>, heap |-> <<>>]

\* A factory that hands every new key the list of the first key.
RefTouchShared(s, k, zero) ==
    IF k \in DOMAIN s.dict THEN s
    ELSE IF Len(s.heap) = 0
         THEN [dict |-> s.dict @@ (k :> 1), heap |-> <<zero>>]
         ELSE [dict |-> s.dict @@ (k :> 1), heap |-> s.heap]

\* d[k] on a defaultdict: an unseen key calls the factory, which builds a
\* new list, and the key refers to it.
RefTouch(s, k, zero) ==
    IF k \in DOMAIN s.dict THEN s
    ELSE [dict |-> s.dict @@ (k :> Len(s.heap) + 1), heap |-> Append(s.heap, zero)]

RECURSIVE RefTouchAll(_, _, _, _)
RefTouchAll(s, keys, k, zero) ==
    IF k > Len(keys) THEN s ELSE RefTouchAll(RefTouch(s, keys[k], zero), keys, k + 1, zero)

\* d[k][j] += n.
RefAdd(s, k, j, n, zero) ==
    LET t == RefTouch(s, k, zero)
    IN  [t EXCEPT !.heap[t.dict[k]][j] = @ + n]

RECURSIVE RefAddAll(_, _, _, _, _)
RefAddAll(s, k, ns, j, zero) ==
    IF j > Len(ns) THEN s ELSE RefAddAll(RefAdd(s, k, j, ns[j], zero), k, ns, j + 1, zero)

\* What each key reads.
Deref(s) == [k \in DOMAIN s.dict |-> s.heap[s.dict[k]]]

\* The keys the first half of the loop body looks up, in the order of the code.
RefKeys(fn, row) ==
    LET winner == row.winner_player_name
        loser == row.loser_player_name
    IN  CASE fn = "h2h" -> <<H2HKey(winner, loser).h2h_key>>
          [] fn = "surface" ->
                [k \in 1..6 |-> IF k <= 3 THEN <<winner, EmittedSurfaces[k]>>
                                          ELSE <<loser, EmittedSurfaces[k - 3]>>]
          [] fn = "serve" -> <<winner, loser>>

\* The first half of the loop body: the lookups, then the values computed
\* from what the references read.
RefRead(fn, s, row) ==
    LET s1 == RefTouchAll(s, RefKeys(fn, row), 1, RefZero(fn))
        r == ReadRow(fn, (DictName(fn) :> Deref(s1)), row)
    IN  [acc |-> s1, loc |-> r.loc, emit |-> r.emit]

\* The second half: the += statements.
RefCommit(fn, s, row, l) ==
    LET winner == row.winner_player_name
        loser == row.loser_player_name
    IN  CASE fn = "h2h" ->
                RefAdd(s, l.h2h_key, IF l.winner_is_first THEN 1 ELSE 2, 1, <<0, 0>>)
          [] fn = "surface" ->
                RefAdd(RefAdd(s, <<winner, row.court_surface>>, 1, 1, <<0, 0>>),
                       <<loser, row.court_surface>>, 2, 1, <<0, 0>>)
          [] fn = "serve" ->
                RefAddAll(RefAddAll(s, winner, l.w, 1, ServeZero), loser, l.l, 1, ServeZero)

RefSortStep ==
    /\ pc.fn \in RefPasses
    /\ pc.at = "sort"
    /\ HasColumns(df, SortColumns)
    /\ df_sorted' = SortValues(df)
    /\ acc' = RefInit
    /\ lists' = <<>>
    /\ i' = 0
    /\ pc' = At(pc.fn, "loop")
    /\ UNCHANGED <<files, df, loc>>

RefLoopRead ==
    /\ pc.fn \in RefPasses
    /\ pc.at = "loop"
    /\ i < Len(df_sorted)
    /\ CanRead(pc.fn, df_sorted[i + 1])
    /\ LET r == RefRead(pc.fn, acc, df_sorted[i + 1])
       IN  /\ acc' = r.acc
           /\ loc' = r.loc
           /\ lists' = Append(lists, r.emit)
    /\ pc' = At(pc.fn, "update")
    /\ UNCHANGED <<files, df, df_sorted, i>>

RefLoopUpdate ==
    /\ pc.fn \in RefPasses
    /\ pc.at = "update"
    /\ acc' = RefCommit(pc.fn, acc, df_sorted[i + 1], loc)
    /\ loc' = <<>>
    /\ i' = i + 1
    /\ pc' = At(pc.fn, "loop")
    /\ UNCHANGED <<files, df, df_sorted, lists>>

NextRef == RefSortStep \/ RefLoopRead \/ RefLoopUpdate \/ AddColumns

\* One of the three passes called on its own: three players, a record of a
\* player against themself, two surfaces, serve counts in every record.
MaxRecsRef == 3
RefPairs == {<<"A", "B">>, <<"B", "A">>, <<"A", "C">>, <<"A", "A">>}
RefSurfaces == {"Clay", "Carpet"}

PoolRef ==
    {[Full(p[1], p[2], 20210104) EXCEPT !.court_surface = s] : p \in RefPairs, s \in RefSurfaces}

InitRefCall ==
    /\ pc \in {[script |-> IF fn = "h2h" THEN "04" ELSE "06", fn |-> fn, at |-> "sort"] :
                  fn \in RefPasses}
    /\ files = <<>>
    /\ df \in {ReadCsv(rows) : rows \in SeqsUpTo(PoolRef, MaxRecsRef)}
    /\ df_sorted = <<>>
    /\ i = 0
    /\ acc = RefInit
    /\ loc = <<>>
    /\ lists = <<>>

SpecRef == InitRefCall /\ [][NextRef]_vars

\* The loop of a pass on references is under way.
RefRunning == pc.fn \in RefPasses /\ pc.at \in {"loop", "update"}

\* The dictionary the pass kept by value holds at this point of the loop.
ByValue ==
    IF pc.at = "loop" THEN AccBefore(pc.fn, i + 1)[DictName(pc.fn)]
    ELSE ReadRow(pc.fn, AccBefore(pc.fn, i + 1), df_sorted[i + 1]).acc[DictName(pc.fn)]

\* C31: no aliasing of per-entity state.  Every key of a dictionary refers to
\* a list of its own, so no update through one key is seen through another;
\* a player is one key whether winner or loser, and the two orders of a pair
\* are one head-to-head key.  Hence each key reads exactly the counts of its
\* own past matches, and the columns are those computed from them.
NoAliasing ==
    RefRunning =>
        /\ \A k1, k2 \in DOMAIN acc.dict : k1 # k2 => acc.dict[k1] # acc.dict[k2]
        /\ Deref(acc) = ByValue
        /\ pc.fn = "serve" => DOMAIN acc.dict \subseteq {"A", "B", "C"}
        /\ pc.fn = "h2h" =>
              \A k \in DOMAIN acc.dict :
                  /\ ~StrLess(k[2], k[1])
                  /\ H2HKey(k[1], k[2]).h2h_key = k
                  /\ H2HKey(k[2], k[1]).h2h_key = k
        /\ \A k \in 1..Len(lists) :
              lists[k] = ReadRow(pc.fn, AccBefore(pc.fn, k), df_sorted[k]).emit

\* The third record is read: A has met B twice, once as winner and once as
\* loser, and C gets a new list while those of A and B hold counts.
NoAliasingWitness ==
    /\ RefRunning
    /\ pc.at = "update"
    /\ i = 2
    /\ Winner(1) = "A" /\ Loser(1) = "B"
    /\ Winner(2) = "B" /\ Loser(2) = "A"
    /\ Winner(3) = "A" /\ Loser(3) = "C"
    /\ \E k \in DOMAIN acc.dict : acc.heap[acc.dict[k]] = RefZero(pc.fn)
    /\ \E k \in DOMAIN acc.dict : acc.heap[acc.dict[k]] # RefZero(pc.fn)

----------------------------------------------------------------------------
(* Head to head, side by side. *)

\* The meetings before row k that p won against q.
WonMeetings(p, q, k) ==
    Cardinality({j \in 1..(k - 1) : Winner(j) = p /\ Loser(j) = q})

\* The side of p in the record of a pair.
SideCount(key, rec, p) == IF key[1] = p THEN rec[1] ELSE rec[2]

H2HPerSide ==
    \A k \in 1..Len(df_sorted) :
        HasCol("h2h", k) =>
            /\ Col("h2h", k).winner.h2h_wins = WonMeetings(Winner(k), Loser(k), k)
            /\ Col("h2h", k).loser.h2h_wins = WonMeetings(Loser(k), Winner(k), k)
            /\ Col("h2h", k).winner.h2h_wins = Col("h2h", k).loser.h2h_losses
            /\ Col("h2h", k).winner.h2h_losses = Col("h2h", k).loser.h2h_wins

H2HUpdate ==
    AtUpdate("h2h") =>
        LET w == Winner(i + 1)
            l == Loser(i + 1)
            old == acc.h2h_records
            new == acc'.h2h_records
        IN  /\ Cardinality({key \in DOMAIN new : {key[1], key[2]} = {w, l}}) = 1
            /\ DOMAIN new = DOMAIN old
            /\ \A key \in DOMAIN new :
                  IF {key[1], key[2]} = {w, l}
                  THEN /\ SideCount(key, new[key], w) = SideCount(key, old[key], w) + 1
                       /\ SideCount(key, new[key], l) = SideCount(key, old[key], l)
                  ELSE new[key] = old[key]

\* C32: head to head per side.  At every record between two players the
\* winner's h2h wins are the earlier meetings the winner won and the loser's
\* h2h wins those the loser won, whichever name sorts first; the winner's
\* wins are the loser's losses and the winner's losses the loser's wins; and
\* the update of the record adds exactly one to the winner's side of the
\* pair and changes nothing else.
H2HPerSideCorrect == []H2HPerSide /\ [][H2HUpdate]_vars

\* The third meeting of A and B has been booked: B, the name that sorts
\* second, won it after losing one and winning one.
H2HPerSideCorrectWitness ==
    /\ pc.fn = "h2h" /\ pc.at = "loop" /\ i = 3
    /\ Winner(1) = "A" /\ Loser(1) = "B"
    /\ Winner(2) = "B" /\ Loser(2) = "A"
    /\ Winner(3) = "B" /\ Loser(3) = "A"
    /\ lists[3].winner = [h2h_wins |-> 1, h2h_losses |-> 1]
    /\ acc.h2h_records[<<"A", "B">>] = <<1, 2>>

----------------------------------------------------------------------------
(* Tiebreaks won and played. *)

\* The tiebreak columns of one side of a record are in range.  Percentages
\* are in hundredths.
TbInRange(c) ==
    /\ 0 <= c.tb_won_ytd /\ c.tb_won_ytd <= c.tb_played_ytd
    /\ 0 <= c.tb_won_career /\ c.tb_won_career <= c.tb_played_career
    /\ 0 <= c.tb_pct_ytd /\ c.tb_pct_ytd <= 10000
    /\ 0 <= c.tb_pct_career /\ c.tb_pct_career <= 10000

\* C33: in every emitted record and for both sides the tiebreaks won are at
\* most the tiebreaks played, year to date and in the career, whatever the
\* matches and scores before; so every tiebreak percentage is between 0
\* and 100.
TiebreaksWonWithinPlayed ==
    \A k \in 1..Len(df_sorted) :
        HasCol("bptb", k) =>
            TbInRange(Col("bptb", k).winner) /\ TbInRange(Col("bptb", k).loser)

\* The second record of a pair whose first match had three tiebreak sets:
\* its winner won two of the three, its loser one.
TiebreaksWonWithinPlayedWitness ==
    /\ HasCol("bptb", 2)
    /\ Winner(2) = Winner(1)
    /\ Col("bptb", 2).winner.tb_won_ytd = 2
    /\ Col("bptb", 2).winner.tb_played_ytd = 3
    /\ Col("bptb", 2).winner.tb_pct_ytd = 6667
    /\ Col("bptb", 2).loser.tb_won_career = 1
    /\ Col("bptb", 2).loser.tb_played_career = 3
    /\ Col("bptb", 2).loser.tb_pct_career = 3333

----------------------------------------------------------------------------
(* One order for the seven passes. *)

\* The order in which the first pass goes through the records of the input.
FirstOrder == SortValues(ReadCsv(files["03"]))

\* A pass that has sorted goes through the records in the order of the first.
OneOrder ==
    Sorted =>
        /\ Len(df_sorted) = Len(FirstOrder)
        /\ \A k \in 1..Len(df_sorted) : RawOf(df_sorted[k]) = RawOf(FirstOrder[k])

\* The columns a row has from the passes when a pass returns are each what
\* the rows before it in that one order give.
SamePoint ==
    (pc.fn \in Passes /\ pc.at = "done") =>
        \A k \in 1..Len(df_sorted) :
            \A fn \in Passes \cap DOMAIN df_sorted[k] :
                df_sorted[k][fn] = ReadRow(fn, AccBeforeIn(fn, FirstOrder, k), FirstOrder[k]).emit

\* The sort of a pass that follows another pass changes nothing.
ResortIsIdentity ==
    (pc.fn \in Passes \ {"yearly"} /\ pc.at = "sort") => df_sorted' = df

\* C34: one processing order.  Each of the seven passes sorts by
\* (tournament_date, match_number) again; on the output of the pass before
\* it the sort is the identity, so the seven passes go through the records
\* in one order, records of equal (date, match number) included, and the
\* columns the passes give one row describe the same point of the sequence.
SingleOrder == [](OneOrder /\ SamePoint) /\ [][ResortIsIdentity]_vars

\* The seventh pass has sorted an input that came with its latest record
\* first and two different records of one (date, match number) after it.
SingleOrderWitness ==
    /\ pc = [script |-> "06", fn |-> "serve", at |-> "loop"]
    /\ Len(files["03"]) = 3
    /\ files["03"][1].tournament_date = 20210104
    /\ files["03"][2].tournament_date = 20201228
    /\ files["03"][3].tournament_date = 20201228
    /\ files["03"][2] # files["03"][3]
    /\ RawOf(df_sorted[1]) = files["03"][2]
    /\ RawOf(df_sorted[2]) = files["03"][3]
    /\ RawOf(df_sorted[3]) = files["03"][1]
    /\ df_sorted = df

----------------------------------------------------------------------------
(* Script 02, the merge of the year files, and script 03, the renaming of
   the columns: what comes before the passes.  A file is the sequence of its
   rows.  A number of the merged frame is kept with the dtype of its column,
   [v |-> cell, float |-> ...]: a column that holds a missing value is a
   column of floats, and stays one after the rows without a value are
   dropped.  A year file holds at least one row. *)

YearFiles == <<"atp_matches/atp_matches_2020.csv", "atp_matches/atp_matches_2021.csv">>
MergedFile == "parsed_data/atp_matches_2011_2024.csv"
OrganizedFile == "parsed_data/03_atp_matches.csv"

\* str(n) of a number that is not negative, digit by digit.
RECURSIVE DigitsOf(_)
DigitsOf(n) == IF n < 10 THEN <<n>> ELSE Append(DigitsOf(n \div 10), n % 10)

RECURSIVE ValueOf(_)
ValueOf(ds) ==
    IF Len(ds) = 0 THEN 0 ELSE ValueOf(SubSeq(ds, 1, Len(ds) - 1)) * 10 + ds[Len(ds)]

IsLeap(y) == IF y % 400 = 0 THEN TRUE ELSE IF y % 100 = 0 THEN FALSE ELSE y % 4 = 0

DaysIn(y, m) ==
    IF m = 2 THEN (IF IsLeap(y) THEN 29 ELSE 28)
    ELSE IF m \in {4, 6, 9, 11} THEN 30 ELSE 31

\* %d of strptime is the pattern 3[0-1]|[1-2]\d|0[1-9]|[1-9]: the length of
\* what it takes at the head of r, 0 if nothing.
DayMatch(r) ==
    IF Len(r) >= 2 /\ r[1] = 3 /\ r[2] \in {0, 1} THEN 2
    ELSE IF Len(r) >= 2 /\ r[1] \in {1, 2} THEN 2
    ELSE IF Len(r) >= 2 /\ r[1] = 0 /\ r[2] \in 1..9 THEN 2
    ELSE IF Len(r) >= 1 /\ r[1] \in 1..9 THEN 1
    ELSE 0

\* %m of strptime is the pattern 1[0-2]|0[1-9]|[1-9]: the lengths it can take at
\* the head of r, in the order the pattern tries them.
MonthMatches(r) ==
    LET ten == IF Len(r) >= 2 THEN r[1] = 1 /\ r[2] \in 0..2 ELSE FALSE
        zero == IF Len(r) >= 2 THEN r[1] = 0 /\ r[2] \in 1..9 ELSE FALSE
        one == IF Len(r) >= 1 THEN r[1] \in 1..9 ELSE FALSE
    IN  (IF ten THEN <<2>> ELSE <<>>) \o (IF zero THEN <<2>> ELSE <<>>)
            \o (IF one THEN <<1>> ELSE <<>>)

\* datetime.strptime(s, '%Y%m%d'): four digits of year, then the first way
\* of reading a month and a day that the patterns find; digits left over, a
\* year 0 and a day the month has not are a ValueError (NaN here).
strptime(s) ==
    IF Len(s) < 4 THEN NaN
    ELSE LET r == SubSeq(s, 5, Len(s))
             ms == MonthMatches(r)
             ok == {k \in 1..Len(ms) : DayMatch(SubSeq(r, ms[k] + 1, Len(r))) > 0}
         IN  IF ok = {} THEN NaN
             ELSE LET ml == ms[CHOOSE k \in ok : \A j \in ok : k <= j]
                      dl == DayMatch(SubSeq(r, ml + 1, Len(r)))
                      y == ValueOf(SubSeq(s, 1, 4))
                      m == ValueOf(SubSeq(r, 1, ml))
                      d == ValueOf(SubSeq(r, ml + 1, ml + dl))
                  IN  IF ml + dl # Len(r) THEN NaN
                      ELSE IF y < 1 THEN NaN
                      ELSE IF d > DaysIn(y, m) THEN NaN
                      ELSE Some([year |-> y, month |-> m, day |-> d])

\* Lines 22-30.  str(int(x)) of a negative number begins with "-", which no
\* directive takes.
parse_date(date_str) ==
    IF date_str = NaN THEN NaN
    ELSE IF date_str[1] < 0 THEN NaN
    ELSE strptime(DigitsOf(date_str[1]))

\* calendar.month_name.
month_name ==
    <<"January", "February", "March", "April",
      "May", "June", "July", "August",
      "September", "October", "November", "December">>

\* Lines 14-20: int(nan) is a ValueError.
month_num_to_name(month) ==
    IF month = NaN THEN NaN
    ELSE IF month[1] \in 1..12 THEN Some(month_name[month[1]]) ELSE NaN

\* Lines 49-56.
atp_500_tournaments ==
    {<<"B", "a", "r", "c", "e", "l", "o", "n", "a">>,
     <<"Q", "u", "e", "e", "n", "'", "s", " ", "C", "l", "u", "b">>,
     <<"H", "a", "m", "b", "u", "r", "g">>,
     <<"W", "a", "s", "h", "i", "n", "g", "t", "o", "n">>,
     <<"W", "i", "n", "s", "t", "o", "n", "-", "S", "a", "l", "e", "m">>,
     <<"D", "u", "b", "a", "i">>,
     <<"R", "o", "t", "t", "e", "r", "d", "a", "m">>,
     <<"A", "c", "a", "p", "u", "l", "c", "o">>,
     <<"M", "e", "m", "p", "h", "i", "s">>,
     <<"R", "i", "o", " ", "d", "e", " ", "J", "a", "n", "e", "i", "r", "o">>,
     <<"H", "a", "l", "l", "e">>,
     <<"L", "o", "n", "d", "o", "n">>,
     <<"B", "e", "i", "j", "i", "n", "g">>,
     <<"T", "o", "k", "y", "o">>,
     <<"B", "a", "s", "e", "l">>,
     <<"V", "i", "e", "n", "n", "a">>,
     <<"B", "a", "r", "c", "e", "l", "o", "n", "a", " ", "O", "p", "e", "n">>,
     <<"A", "e", "g", "o", "n", " ", "C", "h", "a", "m", "p", "i", "o", "n", "s", "h", "i", "p", "s">>,
     <<"F", "e", "v", "e", "r", "-", "T", "r", "e", "e", " ", "C", "h", "a", "m", "p", "i", "o", "n", "s", "h", "i", "p", "s">>,
     <<"C", "i", "t", "i", " ", "O", "p", "e", "n">>,
     <<"C", "h", "i", "n", "a", " ", "O", "p", "e", "n">>,
     <<"R", "a", "k", "u", "t", "e", "n", " ", "J", "a", "p", "a", "n", " ", "O", "p", "e", "n">>,
     <<"S", "w", "i", "s", "s", " ", "I", "n", "d", "o", "o", "r", "s", " ", "B", "a", "s", "e", "l">>,
     <<"E", "r", "s", "t", "e", " ", "B", "a", "n", "k", " ", "O", "p", "e", "n">>,
     <<"A", "B", "N", " ", "A", "M", "R", "O", " ", "W", "o", "r", "l", "d", " ", "T", "e", "n", "n", "i", "s", " ", "T", "o", "u", "r", "n", "a", "m", "e", "n", "t">>}
\* Lines 58-89.
get_points(row) ==
    LET level == row.tourney_level
        draw_size == row.draw_size
        tourney_name == row.tourney_name
    IN  IF level = "G" THEN 2000
        ELSE IF level = "M" THEN 1000
        ELSE IF level = "F" THEN 1500
        ELSE IF level = "D" THEN 0
        ELSE IF level = "A"
             THEN IF \E atp_500 \in atp_500_tournaments : Contains(tourney_name, atp_500)
                  THEN 500
                  ELSE IF draw_size >= 48 THEN 500 ELSE 250
        ELSE 0

\* Lines 91-93.
convert_tourney_level_to_points(rows) ==
    [k \in 1..Len(rows) |-> rows[k] @@ [tourney_points |-> get_points(rows[k])]]

RECURSIVE Flatten(_, _)
Flatten(frames, k) ==
    IF k > Len(frames) THEN <<>> ELSE frames[k] \o Flatten(frames, k + 1)

\* pd.concat(dataframes, ignore_index=True): the rows of the frames one after
\* the other.  tourney_date is a column of floats if a cell of it is missing.
concat(frames) ==
    LET rows == Flatten(frames, 1)
        missing == \E k \in 1..Len(rows) : rows[k].tourney_date = NaN
    IN  [k \in 1..Len(rows) |->
            [rows[k] EXCEPT !.tourney_date = [v |-> @, float |-> missing], !.idx = k - 1]]

\* Lines 98-112.  The parts of a date are columns of floats if a date is NaT.
add_date_features(rows) ==
    LET parsed == [k \in 1..Len(rows) |-> parse_date(rows[k].tourney_date.v)]
        nat == \E k \in 1..Len(rows) : parsed[k] = NaN
        part(k, f) == [v |-> IF parsed[k] = NaN THEN NaN ELSE Some(parsed[k][1][f]),
                       float |-> nat]
    IN  [k \in 1..Len(rows) |->
            rows[k] @@ [parsed_date |-> parsed[k],
                        year |-> part(k, "year"),
                        month |-> part(k, "month"),
                        day |-> part(k, "day"),
                        month_name |-> month_num_to_name(part(k, "month").v),
                        year_month |-> IF parsed[k] = NaN THEN NaN
                                       ELSE Some(<<parsed[k][1].year, parsed[k][1].month>>)]]

\* .dt on the column apply returns: a column of datetimes, some of them NaT,
\* has it; a column of nothing but None is a column of objects and has not.
HasDtAccessor(rows) == \E k \in 1..Len(rows) : parse_date(rows[k].tourney_date.v) # NaN

HasParsedDate(row) == row.parsed_date # NaN

\* Line 167.
dropna(rows) == SelectSeq(rows, HasParsedDate)

MergedKeyLess(r, s) ==
    LET a == <<r.year.v, r.month.v, r.tourney_date.v, <<r.match_num>>>>
        b == <<s.year.v, s.month.v, s.tourney_date.v, <<s.match_num>>>>
    IN  \E k \in 1..4 :
            /\ \A j \in 1..(k - 1) : a[j] = b[j]
            /\ a[k] # NaN
            /\ IF b[k] = NaN THEN TRUE ELSE a[k][1] < b[k][1]

MergedInsert(sorted, r) ==
    LET n == Len(sorted)
        before == {k \in 1..n : ~MergedKeyLess(r, sorted[k])}
        p == IF before = {} THEN 0 ELSE CHOOSE k \in before : \A j \in before : j <= k
    IN  SubSeq(sorted, 1, p) \o <<r>> \o SubSeq(sorted, p + 1, n)

RECURSIVE MergedSortFrom(_, _, _)
MergedSortFrom(rows, k, sorted) ==
    IF k > Len(rows) THEN sorted
    ELSE MergedSortFrom(rows, k + 1, MergedInsert(sorted, rows[k]))

\* Line 172: sort_values(['year', 'month', 'tourney_date', 'match_num']), the
\* stable sort on several columns, a missing value last.
MergedSortValues(rows) == MergedSortFrom(rows, 1, <<>>)

\* Lines 187-193: the temporary columns are dropped, the index is not written.
MergedToCsv(rows) ==
    [k \in 1..Len(rows) |->
        [f \in DOMAIN rows[k] \ {"parsed_date", "year_month", "idx"} |-> rows[k][f]]]

InScript(script, fn, at) == pc = [script |-> script, fn |-> fn, at |-> at]

\* Lines 119-130: the year files that exist, by name.
MergeGlob ==
    /\ InScript("02", "merge_atp_matches", "start")
    /\ loc' = SelectSeq(YearFiles, LAMBDA f : f \in DOMAIN files)
    /\ lists' = <<>>
    /\ i' = 0
    /\ pc' = At("merge_atp_matches", "read")
    /\ UNCHANGED <<files, df, df_sorted, acc>>

\* Lines 132-137: one file is read and appended to dataframes.
MergeReadFile ==
    /\ InScript("02", "merge_atp_matches", "read")
    /\ i < Len(loc)
    /\ lists' = Append(lists, ReadCsv(files[loc[i + 1]]))
    /\ i' = i + 1
    /\ UNCHANGED <<pc, files, df, df_sorted, acc, loc>>

\* Lines 142-144: there is no frame, and the function returns.
MergeNoData ==
    /\ InScript("02", "merge_atp_matches", "read")
    /\ i = Len(loc)
    /\ Len(lists) = 0
    /\ pc' = At("merge_atp_matches", "done")
    /\ UNCHANGED <<files, df, df_sorted, i, acc, loc, lists>>

\* Lines 148-157: the frames are combined, the date columns and the points added.
MergeAddFeatures ==
    /\ InScript("02", "merge_atp_matches", "read")
    /\ i = Len(loc)
    /\ Len(lists) > 0
    /\ HasDtAccessor(concat(lists))
    /\ df' = convert_tourney_level_to_points(add_date_features(concat(lists)))
    /\ pc' = At("merge_atp_matches", "dropna")
    /\ UNCHANGED <<files, df_sorted, i, acc, loc, lists>>

\* Line 101 on a column without a datetime: AttributeError, which line 206
\* raises again.
MergeDtRaises ==
    /\ InScript("02", "merge_atp_matches", "read")
    /\ i = Len(loc)
    /\ Len(lists) > 0
    /\ ~HasDtAccessor(concat(lists))
    /\ pc' = At("merge_atp_matches", "failed")
    /\ UNCHANGED <<files, df, df_sorted, i, acc, loc, lists>>

\* Lines 165-168.
MergeDropna ==
    /\ InScript("02", "merge_atp_matches", "dropna")
    /\ df' = dropna(df)
    /\ pc' = At("merge_atp_matches", "sort")
    /\ UNCHANGED <<files, df_sorted, i, acc, loc, lists>>

\* Lines 170-198: the sort, and the file.
MergeSortWrite ==
    /\ InScript("02", "merge_atp_matches", "sort")
    /\ df' = MergedSortValues(df)
    /\ files' = [f \in DOMAIN files \cup {MergedFile} |->
                    IF f = MergedFile THEN MergedToCsv(MergedSortValues(df)) ELSE files[f]]
    /\ pc' = At("merge_atp_matches", "done")
    /\ UNCHANGED <<df_sorted, i, acc, loc, lists>>

\* 03 lines 15-81.
complete_mapping ==
    {<<"tourney_id", "tournament_id">>, <<"tourney_name", "tournament_name">>,
     <<"surface", "court_surface">>, <<"draw_size", "tournament_draw_size">>,
     <<"tourney_level", "tournament_level">>, <<"tourney_points", "tournament_points">>,
     <<"tourney_date", "tournament_date">>, <<"match_num", "match_number">>,
     <<"score", "final_score">>, <<"best_of", "best_of_sets">>,
     <<"round", "tournament_round">>, <<"minutes", "match_duration_minutes">>,
     <<"year", "tournament_year">>, <<"month", "tournament_month">>,
     <<"day", "tournament_day">>, <<"month_name", "tournament_month_name">>,
     <<"winner_id", "winner_player_id">>, <<"winner_seed", "winner_tournament_seed">>,
     <<"winner_entry", "winner_entry_type">>, <<"winner_name", "winner_player_name">>,
     <<"winner_hand", "winner_handedness">>, <<"winner_ht", "winner_height_cm">>,
     <<"winner_ioc", "winner_country_code">>, <<"winner_age", "winner_age_years">>,
     <<"winner_rank", "winner_atp_rank">>, <<"winner_rank_points", "winner_atp_points">>,
     <<"w_ace", "winner_aces">>, <<"w_df", "winner_double_faults">>,
     <<"w_svpt", "winner_serve_points_total">>, <<"w_1stIn", "winner_first_serves_in">>,
     <<"w_1stWon", "winner_first_serve_points_won">>, <<"w_2ndWon", "winner_second_serve_points_won">>,
     <<"w_SvGms", "winner_service_games">>, <<"w_bpSaved", "winner_break_points_saved">>,
     <<"w_bpFaced", "winner_break_points_faced">>, <<"loser_id", "loser_player_id">>,
     <<"loser_seed", "loser_tournament_seed">>, <<"loser_entry", "loser_entry_type">>,
     <<"loser_name", "loser_player_name">>, <<"loser_hand", "loser_handedness">>,
     <<"loser_ht", "loser_height_cm">>, <<"loser_ioc", "loser_country_code">>,
     <<"loser_age", "loser_age_years">>, <<"loser_rank", "loser_atp_rank">>,
     <<"loser_rank_points", "loser_atp_points">>, <<"l_ace", "loser_aces">>,
     <<"l_df", "loser_double_faults">>, <<"l_svpt", "loser_serve_points_total">>,
     <<"l_1stIn", "loser_first_serves_in">>, <<"l_1stWon", "loser_first_serve_points_won">>,
     <<"l_2ndWon", "loser_second_serve_points_won">>, <<"l_SvGms", "loser_service_games">>,
     <<"l_bpSaved", "loser_break_points_saved">>, <<"l_bpFaced", "loser_break_points_faced">>}
\* df.rename(columns=complete_mapping) on one row; organize_columns changes
\* the order of the columns only.
NewName(f) ==
    IF \E p \in complete_mapping : p[1] = f
    THEN (CHOOSE p \in complete_mapping : p[1] = f)[2]
    ELSE f

rename(row) ==
    [g \in {NewName(f) : f \in DOMAIN row} |-> row[CHOOSE f \in DOMAIN row : NewName(f) = g]]

\* The next script of the preparation is started.
RunOrganize ==
    /\ pc.script = "02"
    /\ pc.at \in {"done", "failed"}
    /\ pc' = [script |-> "03", fn |-> "organize_atp_matches", at |-> "start"]
    /\ df' = <<>>
    /\ df_sorted' = <<>>
    /\ i' = 0
    /\ acc' = <<>>
    /\ loc' = <<>>
    /\ lists' = <<>>
    /\ UNCHANGED files

\* 03 lines 118-121.
OrganizeMissing ==
    /\ InScript("03", "organize_atp_matches", "start")
    /\ MergedFile \notin DOMAIN files
    /\ pc' = At("organize_atp_matches", "failed")
    /\ UNCHANGED <<files, df, df_sorted, i, acc, loc, lists>>

\* 03 lines 126-191.
OrganizeWrite ==
    /\ InScript("03", "organize_atp_matches", "start")
    /\ MergedFile \in DOMAIN files
    /\ df' = ReadCsv(files[MergedFile])
    /\ files' = [f \in DOMAIN files \cup {OrganizedFile} |->
                    IF f = OrganizedFile
                    THEN ToCsv([k \in 1..Len(files[MergedFile]) |->
                                   rename(ReadCsv(files[MergedFile])[k])])
                    ELSE files[f]]
    /\ pc' = At("organize_atp_matches", "done")
    /\ UNCHANGED <<df_sorted, i, acc, loc, lists>>

NextMerge ==
    \/ MergeGlob \/ MergeReadFile \/ MergeNoData \/ MergeAddFeatures \/ MergeDtRaises
    \/ MergeDropna \/ MergeSortWrite
    \/ RunOrganize \/ OrganizeMissing \/ OrganizeWrite

\* The year files: dates that are missing, that are YYYYMMDD, that have a
\* month or a day of one digit, and that no calendar has; tournaments of
\* every level.
MaxRecsMerge == 2

MatchRow(date, num, name, level, draw) ==
    [tourney_name |-> name, draw_size |-> draw, tourney_level |-> level,
     tourney_date |-> date, match_num |-> num, winner_name |-> "A", loser_name |-> "B"]

MergeDates == {NaN, Some(20200106), Some(20201005), Some(2020106), Some(20200230),
               Some(20201301), Some(-20200106)}

PoolMerge ==
    {MatchRow(d, 1, <<"D", "o", "h", "a">>, "A", 32) : d \in MergeDates}
        \cup {MatchRow(Some(20200106), 2, <<"H", "a", "l", "l", "e", " ", "O", "p", "e", "n">>,
                       "A", 32),
              MatchRow(Some(20200106), 2, <<"D", "o", "h", "a">>, "A", 48)}
        \cup {MatchRow(Some(20200106), 3, <<"D", "o", "h", "a">>, l, 128) :
                 l \in {"G", "M", "F", "D", "C"}}

PoolMergeNext ==
    {<<MatchRow(Some(20210104), 1, <<"D", "o", "h", "a">>, "A", 32)>>,
     <<MatchRow(NaN, 1, <<"D", "o", "h", "a">>, "A", 32)>>}

Directory(first, second) ==
    [f \in {YearFiles[k] : k \in {j \in 1..2 : <<first, second>>[j] # <<>>}} |->
        IF f = YearFiles[1] THEN first ELSE second]

InitMerge ==
    /\ pc = [script |-> "02", fn |-> "merge_atp_matches", at |-> "start"]
    /\ files \in {Directory(a, b) : a \in SeqsUpTo(PoolMerge, MaxRecsMerge),
                                    b \in {<<>>} \cup PoolMergeNext}
    /\ df = <<>>
    /\ df_sorted = <<>>
    /\ i = 0
    /\ acc = <<>>
    /\ loc = <<>>
    /\ lists = <<>>

SpecMerge == InitMerge /\ [][NextMerge]_vars

\* The rows of the year files, in the order the merge reads them.
MergeInput ==
    Flatten([k \in 1..Len(YearFiles) |->
                IF YearFiles[k] \in DOMAIN files THEN files[YearFiles[k]] ELSE <<>>], 1)

\* A number that reads as a date of four, two and two digits.
IsYYYYMMDD(n) ==
    /\ n >= 10000101
    /\ n <= 99991231
    /\ (n \div 100) % 100 \in 1..12
    /\ n % 100 \in 1..DaysIn(n \div 10000, (n \div 100) % 100)

HasValidDate(row) ==
    IF row.tourney_date = NaN THEN FALSE ELSE IsYYYYMMDD(row.tourney_date[1])

IsParsed(row) == parse_date(row.tourney_date) # NaN

Organized == InScript("03", "organize_atp_matches", "done")

\* The rows of the organized file are the rows of the input that pick names,
\* in that order.
KeptAre(pick(_)) ==
    LET out == files[OrganizedFile]
        kept == SelectSeq(MergeInput, pick)
    IN  /\ Len(out) = Len(kept)
        /\ \E o \in Orders(Len(out)) :
              \A k \in 1..Len(out) :
                  /\ out[k].tournament_date.v = kept[o[k]].tourney_date
                  /\ out[k].match_number = kept[o[k]].match_num
                  /\ out[k].tournament_level = kept[o[k]].tourney_level

\* C35: invalid dates are rejected upstream.  The merge drops every record
\* whose tournament date is missing or does not parse as YYYYMMDD before it
\* sorts and writes, so every record that reaches the passes has a valid
\* date, and no other record is dropped.
InvalidDatesRejected ==
    Organized =>
        /\ \A k \in 1..Len(files[OrganizedFile]) :
              IsYYYYMMDD(files[OrganizedFile][k].tournament_date.v[1])
        /\ KeptAre(HasValidDate)

\* What the merge does: it keeps the records whose date strptime takes, which
\* are those of eight digits and those of seven or six whose month or day
\* reads in one digit.
DatesRejectedAsParsed ==
    Organized => KeptAre(IsParsed)

DatesRejectedAsParsedWitness ==
    /\ Organized
    /\ \E k \in 1..Len(MergeInput) : ~IsParsed(MergeInput[k])
    /\ \E k \in 1..Len(MergeInput) : IsParsed(MergeInput[k]) /\ ~HasValidDate(MergeInput[k])

----------------------------------------------------------------------------
(* Script 01: the download of the year files.  A file is the sequence of the
   chunks written to it, a response body the sequence of the chunks
   iter_content yields; a chunk is empty (n = 0) or not, and holds an HTML
   tag or a comma or neither.  The first chunk of a file is taken to hold its
   first 512 bytes.  lists is what the script has printed and requested. *)

start_year == 2011

\* The number of years of the range start_year..end_year.
MaxYears == 2

end_year == start_year + MaxYears - 1

\* Line 33, and lines 117-119.
BASE_RAW_URL(year) == <<"https://raw.githubusercontent.com", "atp_matches", year>>
OutPath(year) == <<"atp_matches", year, ".csv">>

\* A download that writes where the file is.
TmpPathInPlace(outpath) == outpath

\* Line 86.
TmpPath(outpath) == Append(outpath, ".part")

Csv == [n |-> 1, html |-> FALSE, comma |-> TRUE]
Html == [n |-> 1, html |-> TRUE, comma |-> TRUE]
Plain == [n |-> 1, html |-> FALSE, comma |-> FALSE]
KeepAlive == [n |-> 0, html |-> FALSE, comma |-> FALSE]

\* Lines 51-71: open raises on a file that is not there.
sane_file_check(dir, path) ==
    IF path \notin DOMAIN dir THEN FALSE
    ELSE LET start == dir[path]
         IN  IF Len(start) = 0 THEN FALSE
             ELSE IF start[1].html THEN FALSE
             ELSE IF ~start[1].comma THEN FALSE
             ELSE TRUE

IsChunk(chunk) == chunk.n > 0

\* The bodies a response of status 200 can have: nothing, a year file in one
\* chunk or in two, with an empty chunk before it, an error page, text
\* without a comma.
Bodies == {<<>>, <<Csv>>, <<Csv, Csv>>, <<KeepAlive, Csv>>, <<Html>>, <<Plain>>}

InDownload(at) == InScript("01", "download_file", at)

Printed(what, year) == Append(lists, [what |-> what, year |-> year])

\* Line 78: session.get raises (no connection, the retries used up).
DownloadGetRaises ==
    /\ InDownload("get")
    /\ lists' = Printed("get", loc.year)
    /\ pc' = At("download_file", "raised")
    /\ UNCHANGED <<files, df, df_sorted, i, acc, loc>>

\* Lines 78-80: a status that is not 200.
DownloadHttpError ==
    /\ InDownload("get")
    /\ lists' = Printed("get", loc.year)
    /\ \E status_code \in {404, 500} :
          loc' = [loc EXCEPT !.status_code = status_code]
    /\ pc' = At("download_file", "raised")
    /\ UNCHANGED <<files, df, df_sorted, i, acc>>

\* Lines 78-87: status 200; the temporary file is opened for writing, which
\* creates it or empties it.
DownloadOpen ==
    /\ InDownload("get")
    /\ lists' = Printed("get", loc.year)
    /\ \E body \in Bodies :
          loc' = [loc EXCEPT !.status_code = 200, !.body = body, !.sent = 0]
    /\ files' = [f \in DOMAIN files \cup {TmpPath(loc.outpath)} |->
                    IF f = TmpPath(loc.outpath) THEN <<>> ELSE files[f]]
    /\ pc' = At("download_file", "stream")
    /\ UNCHANGED <<df, df_sorted, i, acc>>

\* Lines 102-104: one chunk; an empty one is not written.
DownloadChunk ==
    /\ InDownload("stream")
    /\ loc.sent < Len(loc.body)
    /\ LET chunk == loc.body[loc.sent + 1]
       IN  files' = [files EXCEPT ![TmpPath(loc.outpath)] =
                        IF IsChunk(chunk) THEN Append(@, chunk) ELSE @]
    /\ loc' = [loc EXCEPT !.sent = @ + 1]
    /\ UNCHANGED <<pc, df, df_sorted, i, acc, lists>>

\* iter_content or write raises: the with statement closes the temporary
\* file as it is.
DownloadStreamRaises ==
    /\ InDownload("stream")
    /\ loc.sent < Len(loc.body)
    /\ pc' = At("download_file", "raised")
    /\ UNCHANGED <<files, df, df_sorted, i, acc, loc, lists>>

\* Line 107: os.replace(tmp_path, outpath).
DownloadReplace ==
    /\ InDownload("stream")
    /\ loc.sent = Len(loc.body)
    /\ files' = [f \in (DOMAIN files \cup {loc.outpath}) \ {TmpPath(loc.outpath)} |->
                    IF f = loc.outpath THEN files[TmpPath(loc.outpath)] ELSE files[f]]
    /\ pc' = At("download_file", "returned")
    /\ UNCHANGED <<df, df_sorted, i, acc, loc, lists>>

NextDownloadFile ==
    \/ DownloadGetRaises \/ DownloadHttpError \/ DownloadOpen
    \/ DownloadChunk \/ DownloadStreamRaises \/ DownloadReplace

Call(year) ==
    [year |-> year, url |-> BASE_RAW_URL(year), outpath |-> OutPath(year),
     status_code |-> 0, body |-> <<>>, sent |-> 0]

\* Lines 111-115.
Main01Start ==
    /\ InScript("01", "main", "start")
    /\ acc' = <<>>
    /\ i' = 0
    /\ lists' = <<>>
    /\ loc' = <<>>
    /\ pc' = At("main", "loop")
    /\ UNCHANGED <<files, df, df_sorted>>

\* Lines 121-123.
Main01Skip ==
    /\ InScript("01", "main", "loop")
    /\ start_year + i <= end_year
    /\ sane_file_check(files, OutPath(start_year + i))
    /\ lists' = Printed("skipping", start_year + i)
    /\ i' = i + 1
    /\ UNCHANGED <<pc, files, df, df_sorted, acc, loc>>

\* Lines 124-126.
Main01Download ==
    /\ InScript("01", "main", "loop")
    /\ start_year + i <= end_year
    /\ ~sane_file_check(files, OutPath(start_year + i))
    /\ lists' = Printed("downloading", start_year + i)
    /\ loc' = Call(start_year + i)
    /\ pc' = At("download_file", "get")
    /\ UNCHANGED <<files, df, df_sorted, i, acc>>

\* Lines 127-129: the file passes the check.
Main01Saved ==
    /\ InDownload("returned")
    /\ sane_file_check(files, loc.outpath)
    /\ lists' = Printed("saved", loc.year)
    /\ i' = i + 1
    /\ loc' = <<>>
    /\ pc' = At("main", "loop")
    /\ UNCHANGED <<files, df, df_sorted, acc>>

\* Lines 127-128 and 130-132: the file fails the check.
Main01SanityFails ==
    /\ InDownload("returned")
    /\ ~sane_file_check(files, loc.outpath)
    /\ lists' = Printed("error", loc.year)
    /\ acc' = Append(acc, <<loc.year, "Sanity check failed">>)
    /\ i' = i + 1
    /\ loc' = <<>>
    /\ pc' = At("main", "loop")
    /\ UNCHANGED <<files, df, df_sorted>>

\* A loop that an exception ends.
Main01DownloadRaisedEndsLoop ==
    /\ InDownload("raised")
    /\ lists' = Printed("error", loc.year)
    /\ acc' = Append(acc, <<loc.year, IF loc.status_code = 0 THEN "raised" ELSE "HTTP">>)
    /\ i' = end_year - start_year + 1
    /\ loc' = <<>>
    /\ pc' = At("main", "loop")
    /\ UNCHANGED <<files, df, df_sorted>>

\* Lines 130-132: download_file raised.
Main01DownloadRaised ==
    /\ InDownload("raised")
    /\ lists' = Printed("error", loc.year)
    /\ acc' = Append(acc, <<loc.year, IF loc.status_code = 0 THEN "raised" ELSE "HTTP">>)
    /\ i' = i + 1
    /\ loc' = <<>>
    /\ pc' = At("main", "loop")
    /\ UNCHANGED <<files, df, df_sorted>>

\* Lines 134-141.
Main01Exit ==
    /\ InScript("01", "main", "loop")
    /\ start_year + i > end_year
    /\ pc' = At("main", IF Len(acc) > 0 THEN "exit 2" ELSE "exit 0")
    /\ UNCHANGED <<files, df, df_sorted, i, acc, loc, lists>>

\* The script is run again on the directory as it is.
Main01RunAgain ==
    /\ pc.script = "01"
    /\ pc.fn = "main"
    /\ pc.at \in {"exit 0", "exit 2"}
    /\ pc' = At("main", "start")
    /\ UNCHANGED <<files, df, df_sorted, i, acc, loc, lists>>

NextDownload ==
    \/ Main01Start \/ Main01Skip \/ Main01Download
    \/ Main01Saved \/ Main01SanityFails \/ Main01DownloadRaised
    \/ Main01Exit \/ Main01RunAgain
    \/ NextDownloadFile

\* What a file of the directory can hold before a run: a year file, an error
\* page, text without a comma, nothing.
FilesBefore == {<<Csv>>, <<Html>>, <<Plain>>, <<>>}

Absent == <<KeepAlive>>

DirectoryOf(content, paths) ==
    [p \in {q \in paths : content[q] # Absent} |-> content[p]]

Years == start_year..end_year

InitDownload ==
    /\ pc = [script |-> "01", fn |-> "main", at |-> "start"]
    /\ files \in {DirectoryOf(c, {OutPath(y) : y \in Years}) :
                     c \in [{OutPath(y) : y \in Years} -> FilesBefore \cup {Absent}]}
    /\ df = <<>>
    /\ df_sorted = <<>>
    /\ i = 0
    /\ acc = <<>>
    /\ loc = <<>>
    /\ lists = <<>>

SpecDownload == InitDownload /\ [][NextDownload]_vars

\* download_file called on its own: the file is there or not, and so is a
\* temporary file of an earlier call.
InitDownloadFile ==
    /\ pc = [script |-> "01", fn |-> "download_file", at |-> "get"]
    /\ files \in {DirectoryOf(c, {OutPath(start_year), TmpPath(OutPath(start_year))}) :
                     c \in [{OutPath(start_year), TmpPath(OutPath(start_year))} ->
                               FilesBefore \cup {Absent}]}
    /\ df = <<>>
    /\ df_sorted = <<>>
    /\ i = 0
    /\ acc = <<>>
    /\ loc = Call(start_year)
    /\ lists = <<>>

SpecDownloadFile == InitDownloadFile /\ [][NextDownloadFile]_vars

\* What a path holds: its chunks, or that it is not there.
HoldsAt(dir, path) == IF path \in DOMAIN dir THEN dir[path] ELSE Absent

IsWritten(chunk) == IsChunk(chunk)

\* While the body is streamed the temporary file holds the chunks of the
\* body that have come, the empty ones left out.
PartHoldsPrefix ==
    InDownload("stream") =>
        HoldsAt(files, TmpPath(loc.outpath)) = SelectSeq(SubSeq(loc.body, 1, loc.sent), IsWritten)

\* A step of download_file: the one that changes the file is the rename, which
\* comes with status 200 after the last chunk and puts the whole body there;
\* a step from the request to the exception changes no file at all.
AtomicStep ==
    (pc.script = "01" /\ pc.fn = "download_file") =>
        IF HoldsAt(files', loc.outpath) # HoldsAt(files, loc.outpath)
        THEN /\ pc.at = "stream"
             /\ pc'.at = "returned"
             /\ loc.status_code = 200
             /\ loc.sent = Len(loc.body)
             /\ HoldsAt(files', loc.outpath) = SelectSeq(loc.body, IsWritten)
        ELSE /\ pc'.at = "raised" => HoldsAt(files', loc.outpath) = HoldsAt(files, loc.outpath)
             /\ (pc.at = "get" /\ pc'.at = "raised") => files' = files
             /\ pc'.at = "returned" => HoldsAt(files', loc.outpath) = SelectSeq(loc.body, IsWritten)

\* C36: download atomicity.  download_file writes the body to
\* '<outpath>.part' and replaces outpath by a rename only after the whole
\* body is written; a response that is not 200 raises before any file is
\* created or changed; a failure while streaming leaves the file at outpath
\* as it was.
DownloadAtomicity == []PartHoldsPrefix /\ [][AtomicStep]_vars

\* A body of two chunks has replaced an error page that was at outpath.
DownloadAtomicityWitness ==
    /\ InDownload("returned")
    /\ loc.body = <<Csv, Csv>>
    /\ files[loc.outpath] = <<Csv, Csv>>
    /\ TmpPath(loc.outpath) \notin DOMAIN files


IsDecision(line) == line.what \in {"skipping", "downloading"}
IsGet(line) == line.what = "get"
IsError(line) == line.what = "error"

YearsOf(lines) == [k \in 1..Len(lines) |-> lines[k].year]

\* The years the loop has come to.
YearsReached ==
    IF pc.fn = "main" /\ pc.at \in {"loop", "exit 0", "exit 2"}
    THEN i
    ELSE IF pc.fn = "download_file" THEN i + 1 ELSE 0

\* The loop takes the years from start_year on, each once; a request is for
\* a year that was not skipped, and there is one at most for a year.
LogInOrder ==
    (pc.script = "01" /\ pc.at # "start") =>
        /\ YearsOf(SelectSeq(lists, IsDecision)) = [k \in 1..YearsReached |-> start_year + k - 1]
        /\ \A y \in Years :
              Len(SelectSeq(lists, LAMBDA l : IsGet(l) /\ l.year = y))
                  <= Len(SelectSeq(lists, LAMBDA l : l.what = "downloading" /\ l.year = y))
        /\ YearsOf(SelectSeq(lists, IsError)) = [k \in 1..Len(acc) |-> acc[k][1]]

Exited == pc.script = "01" /\ pc.fn = "main" /\ pc.at \in {"exit 0", "exit 2"}

\* At the exit every year has been taken, the status is 2 exactly if a year
\* failed, and the years that failed are those whose file is not there or
\* does not pass the check: the years a run that follows asks for.
ExitStatus ==
    Exited =>
        /\ YearsReached = end_year - start_year + 1
        /\ pc.at = "exit 2" <=> Len(acc) > 0
        /\ {acc[k][1] : k \in 1..Len(acc)}
               = {y \in Years : ~sane_file_check(files, OutPath(y))}

\* A step asks for a year exactly if its file is not there or fails the
\* check, and changes the files of no other year.
LoopStep ==
    (pc.script = "01" /\ pc.at # "start" /\ ~Exited) =>
        /\ (pc.fn = "main" /\ pc'.fn = "download_file")
               <=> (pc.fn = "main" /\ start_year + i <= end_year
                       /\ ~sane_file_check(files, OutPath(start_year + i)))
        /\ \A y \in Years \ {start_year + i} :
              /\ HoldsAt(files', OutPath(y)) = HoldsAt(files, OutPath(y))
              /\ HoldsAt(files', TmpPath(OutPath(y))) = HoldsAt(files, TmpPath(OutPath(y)))
        /\ (pc.fn = "download_file" /\ pc'.fn = "main") => i' = i + 1

\* C37: the download loop.  main takes every year of start..end in
\* ascending order once; a year whose file is there and passes
\* sane_file_check is skipped without a request; a failure for a year (HTTP
\* error, or a failed check after the download) is recorded and the later
\* years are still taken; the exit status is 2 exactly if a year failed; and
\* a run that follows asks again for the years whose file is not there or
\* fails the check, and for no other.
DownloadLoop == [](LogInOrder /\ ExitStatus) /\ [][LoopStep]_vars

\* The first year failed with an HTTP error, the second was downloaded and
\* saved after it, and the script exits with status 2.
DownloadLoopWitness ==
    /\ Exited
    /\ pc.at = "exit 2"
    /\ acc = <<<<start_year, "HTTP">>>>
    /\ YearsOf(SelectSeq(lists, IsGet)) = <<start_year, start_year + 1>>
    /\ lists[Len(lists)] = [what |-> "saved", year |-> start_year + 1]
    /\ ~sane_file_check(files, OutPath(start_year))

====
